---- MODULE Spec2Model ----
(***************************************************************************)
(* Version comparison of two NDIS support catalogue snapshots              *)
(* (version_diff.py): normalisation, indexing, the seven-way               *)
(* classification, the field diff and the summary counts.                  *)
(***************************************************************************)
EXTENDS Integers, Sequences, FiniteSets, TLC

(***************************************************************************)
(* Python values.  A value is a record [t, s, n]: t is the Python type,    *)
(* s the characters of a str (a sequence of one-character strings), n the  *)
(* number of an int, of a float with a zero fraction (n.0) or of a bool.   *)
(***************************************************************************)
None == [t |-> "none", s |-> <<>>, n |-> 0]

Str(chars) == [t |-> "str", s |-> chars, n |-> 0]

Float(k) == [t |-> "float", s |-> <<>>, n |-> k]

PyInt(k) == [t |-> "int", s |-> <<>>, n |-> k]

PyBool(b) == [t |-> "bool", s |-> <<>>, n |-> IF b THEN 1 ELSE 0]

\* The slot of an index entry that holds no item (Python None).
NoItem == [none |-> TRUE]

\* A mutant of Truthy under which only None is falsy.
truthy_unless_none(v) == v.t # "none"

\* Python truthiness of a value: `if item_num:`.
Truthy(v) ==
    CASE v.t = "none" -> FALSE
      [] v.t = "str" -> Len(v.s) > 0
      [] OTHER -> v.n # 0

\* Python truthiness of an index slot: None and the empty dict are falsy.
Present(slot) == slot # NoItem /\ DOMAIN slot # {}

\* dict.get(key): the value, or None when the key is missing.
Get(item, key) == IF key \in DOMAIN item THEN item[key] ELSE None

(***************************************************************************)
(* Characters: str.strip() and str.lower().                                *)
(***************************************************************************)
UpperChars == <<"A", "B", "C", "D", "E", "F", "G", "H", "I", "J", "K", "L", "M",
                "N", "O", "P", "Q", "R", "S", "T", "U", "V", "W", "X", "Y", "Z">>

LowerChars == <<"a", "b", "c", "d", "e", "f", "g", "h", "i", "j", "k", "l", "m",
                "n", "o", "p", "q", "r", "s", "t", "u", "v", "w", "x", "y", "z">>

IsSpace(c) == c \in {" ", "\t", "\n", "\r"}

LowerChar(c) ==
    IF \E i \in 1..Len(UpperChars) : UpperChars[i] = c
    THEN LowerChars[CHOOSE i \in 1..Len(UpperChars) : UpperChars[i] = c]
    ELSE c

Lower(chars) == [i \in 1..Len(chars) |-> LowerChar(chars[i])]

RECURSIVE LStrip(_)
LStrip(chars) ==
    IF chars # <<>> /\ IsSpace(Head(chars)) THEN LStrip(Tail(chars)) ELSE chars

RECURSIVE RStrip(_)
RStrip(chars) ==
    IF chars # <<>> /\ IsSpace(chars[Len(chars)])
    THEN RStrip(SubSeq(chars, 1, Len(chars) - 1))
    ELSE chars

Strip(chars) == RStrip(LStrip(chars))

(***************************************************************************)
(* str(value) of a value that is neither None nor a str.                   *)
(***************************************************************************)
Digits == <<"0", "1", "2", "3", "4", "5", "6", "7", "8", "9">>

RECURSIVE NatChars(_)
NatChars(k) ==
    IF k < 10 THEN <<Digits[k + 1]>>
    ELSE NatChars(k \div 10) \o <<Digits[(k % 10) + 1]>>

IntChars(k) == IF k < 0 THEN <<"-">> \o NatChars(0 - k) ELSE NatChars(k)

PyStr(v) ==
    CASE v.t = "float" -> IntChars(v.n) \o <<".", "0">>
      [] v.t = "int" -> IntChars(v.n)
      [] v.t = "bool" -> IF v.n = 1 THEN <<"T", "r", "u", "e">>
                         ELSE <<"F", "a", "l", "s", "e">>
      [] v.t = "str" -> v.s
      [] OTHER -> <<"N", "o", "n", "e">>

\* _normalize_for_comparison: a mutant that tests `if not value` instead of
\* `if value is None`, so that every falsy value gives the empty string.
normalize_falsy_empty(value) ==
    IF ~Truthy(value) THEN <<>>
    ELSE IF value.t = "str" THEN Lower(Strip(value.s))
    ELSE PyStr(value)

\* _normalize_for_comparison: a mutant that forgets to lower-case.
normalize_no_lower(value) ==
    IF value.t = "none" THEN <<>>
    ELSE IF value.t = "str" THEN Strip(value.s)
    ELSE PyStr(value)

\* _normalize_for_comparison: a mutant without the `value is None` test, so
\* that None goes through str().
normalize_none_as_text(value) ==
    IF value.t = "str" THEN Lower(Strip(value.s))
    ELSE PyStr(value)

\* _normalize_for_comparison(value) -> str
normalize_for_comparison(value) ==
    IF value.t = "none" THEN <<>>
    ELSE IF value.t = "str" THEN Lower(Strip(value.s))
    ELSE PyStr(value)


(***************************************************************************)
(* _compute_field_changes                                                  *)
(***************************************************************************)
\* A mutant of fields_to_compare that also lists raw_row_index.
fields_to_compare_with_row_index ==
    <<"support_name", "registration_group", "category", "unit", "claim_type",
      "price_limit_nsw", "price_limit_vic", "price_limit_qld", "price_limit_sa",
      "price_limit_wa", "price_limit_tas", "price_limit_nt", "price_limit_act",
      "effective_from", "effective_to", "notes", "raw_row_index">>

fields_to_compare ==
    <<"support_name", "registration_group", "category", "unit", "claim_type",
      "price_limit_nsw", "price_limit_vic", "price_limit_qld", "price_limit_sa",
      "price_limit_wa", "price_limit_tas", "price_limit_nt", "price_limit_act",
      "effective_from", "effective_to", "notes">>

\* A mutant of differs that compares the raw texts, without normalizing.
differs_raw(old_val, new_val) ==
    (IF old_val.t = "str" THEN old_val.s ELSE normalize_for_comparison(old_val))
        # (IF new_val.t = "str" THEN new_val.s ELSE normalize_for_comparison(new_val))

\* A mutant of differs that normalizes the new value only.
differs_old_raw(old_val, new_val) ==
    (IF old_val.t = "str" THEN old_val.s ELSE normalize_for_comparison(old_val))
        # normalize_for_comparison(new_val)

\* `old_normalized != new_normalized`, of the two normalized values.
differs(old_val, new_val) ==
    LET old_normalized == normalize_for_comparison(old_val)
        new_normalized == normalize_for_comparison(new_val)
    IN  old_normalized # new_normalized

\* The body of `for field in fields_to_compare`, from field number i on.
\* changes is the dict built so far: a function from field names to
\* [old, new] records.
RECURSIVE field_changes_from(_, _, _, _)
field_changes_from(old_item, new_item, i, changes) ==
    IF i > Len(fields_to_compare) THEN changes
    ELSE LET field == fields_to_compare[i]
             old_val == Get(old_item, field)
             new_val == Get(new_item, field)
         IN  field_changes_from(old_item, new_item, i + 1,
                 IF differs(old_val, new_val)
                 THEN (field :> [old |-> old_val, new |-> new_val]) @@ changes
                 ELSE changes)

\* A mutant of compute_field_changes that takes the items in the other order.
compute_field_changes_swapped(old_item, new_item) ==
    field_changes_from(new_item, old_item, 1, <<>>)

\* _compute_field_changes(old_item, new_item) -> dict
compute_field_changes(old_item, new_item) ==
    field_changes_from(old_item, new_item, 1, <<>>)

(***************************************************************************)
(* _index_catalogue                                                        *)
(***************************************************************************)
EmptyEntry == [current |-> NoItem, legacy |-> NoItem]

\* A mutant of index_rows that starts a fresh entry for every row, losing the
\* other slot.
RECURSIVE index_rows_fresh_entry(_, _, _)
index_rows_fresh_entry(rows, slot, index) ==
    IF rows = <<>> THEN index
    ELSE LET item == Head(rows)
             item_num == Get(item, "item_number")
         IN  index_rows_fresh_entry(Tail(rows), slot,
                 IF Truthy(item_num)
                 THEN (item_num :> [EmptyEntry EXCEPT ![slot] = item]) @@ index
                 ELSE index)

\* A mutant of index_rows that leaves the loop after the first row it stores.
RECURSIVE index_rows_first_only(_, _, _)
index_rows_first_only(rows, slot, index) ==
    IF rows = <<>> THEN index
    ELSE LET item == Head(rows)
             item_num == Get(item, "item_number")
             entry == IF item_num \in DOMAIN index THEN index[item_num]
                      ELSE EmptyEntry
         IN  IF Truthy(item_num)
             THEN (item_num :> [entry EXCEPT ![slot] = item]) @@ index
             ELSE index_rows_first_only(Tail(rows), slot, index)

\* A mutant of index_rows that keeps the first row of an item number.
RECURSIVE index_rows_keep_first(_, _, _)
index_rows_keep_first(rows, slot, index) ==
    IF rows = <<>> THEN index
    ELSE LET item == Head(rows)
             item_num == Get(item, "item_number")
             entry == IF item_num \in DOMAIN index THEN index[item_num]
                      ELSE EmptyEntry
         IN  index_rows_keep_first(Tail(rows), slot,
                 IF Truthy(item_num) /\ entry[slot] = NoItem
                 THEN (item_num :> [entry EXCEPT ![slot] = item]) @@ index
                 ELSE index)

\* One `for item in catalogue.get(...)` loop, filling the given slot.
RECURSIVE index_rows(_, _, _)
index_rows(rows, slot, index) ==
    IF rows = <<>> THEN index
    ELSE LET item == Head(rows)
             item_num == Get(item, "item_number")
             entry == IF item_num \in DOMAIN index THEN index[item_num]
                      ELSE EmptyEntry
         IN  index_rows(Tail(rows), slot,
                 IF Truthy(item_num)
                 THEN (item_num :> [entry EXCEPT ![slot] = item]) @@ index
                 ELSE index)

\* _index_catalogue(catalogue) -> dict
index_catalogue(catalogue) ==
    index_rows(catalogue.legacy_items, "legacy",
        index_rows(catalogue.current_items, "current", <<>>))

\* dict.get(item_num, {'current': None, 'legacy': None})
EntryOf(index, item_num) ==
    IF item_num \in DOMAIN index THEN index[item_num] ELSE EmptyEntry

(***************************************************************************)
(* compare_catalogues                                                      *)
(***************************************************************************)
Categories ==
    <<"added", "removed", "moved_to_legacy", "legacy_removed", "modified",
      "unchanged", "anomalies">>

EmptyResults ==
    [added |-> <<>>, removed |-> <<>>, moved_to_legacy |-> <<>>,
     legacy_removed |-> <<>>, modified |-> <<>>, unchanged |-> <<>>,
     anomalies |-> <<>>]

\* A mutant of anomaly_desc that names the NEW slots before the OLD ones.
anomaly_desc_new_first(old_current, old_legacy, new_current, new_legacy) ==
    (IF Present(new_current) THEN <<"NEW Current">> ELSE <<>>)
    \o (IF Present(new_legacy) THEN <<"NEW Legacy">> ELSE <<>>)
    \o (IF Present(old_current) THEN <<"OLD Current">> ELSE <<>>)
    \o (IF Present(old_legacy) THEN <<"OLD Legacy">> ELSE <<>>)

\* anomaly_desc: the labels of the slots that hold an item, in source order.
anomaly_desc(old_current, old_legacy, new_current, new_legacy) ==
    (IF Present(old_current) THEN <<"OLD Current">> ELSE <<>>)
    \o (IF Present(old_legacy) THEN <<"OLD Legacy">> ELSE <<>>)
    \o (IF Present(new_current) THEN <<"NEW Current">> ELSE <<>>)
    \o (IF Present(new_legacy) THEN <<"NEW Legacy">> ELSE <<>>)

\* A mutant of branch whose Modified/Unchanged rule also asks OLD Legacy to
\* be absent.
branch_current_without_legacy(old_current, old_legacy, new_current, new_legacy) ==
    IF Present(new_current) /\ ~Present(old_current) /\ ~Present(old_legacy)
    THEN "added"
    ELSE IF Present(old_current) /\ ~Present(new_current) /\ ~Present(new_legacy)
    THEN "removed"
    ELSE IF Present(old_current) /\ Present(new_legacy) /\ ~Present(new_current)
    THEN "moved_to_legacy"
    ELSE IF Present(old_legacy) /\ ~Present(new_current) /\ ~Present(new_legacy)
    THEN "legacy_removed"
    ELSE IF Present(old_current) /\ Present(new_current) /\ ~Present(old_legacy)
    THEN "both_current"
    ELSE "anomalies"

\* A mutant of branch that first sends an item in both NEW collections to
\* anomalies.
branch_flags_both_new(old_current, old_legacy, new_current, new_legacy) ==
    IF Present(new_current) /\ Present(new_legacy)
    THEN "anomalies"
    ELSE IF Present(new_current) /\ ~Present(old_current) /\ ~Present(old_legacy)
    THEN "added"
    ELSE IF Present(old_current) /\ ~Present(new_current) /\ ~Present(new_legacy)
    THEN "removed"
    ELSE IF Present(old_current) /\ Present(new_legacy) /\ ~Present(new_current)
    THEN "moved_to_legacy"
    ELSE IF Present(old_legacy) /\ ~Present(new_current) /\ ~Present(new_legacy)
    THEN "legacy_removed"
    ELSE IF Present(old_current) /\ Present(new_current)
    THEN "both_current"
    ELSE "anomalies"

\* A mutant of branch whose Legacy removed rule does not ask NEW Legacy to be
\* absent.
branch_legacy_removed_wide(old_current, old_legacy, new_current, new_legacy) ==
    IF Present(new_current) /\ ~Present(old_current) /\ ~Present(old_legacy)
    THEN "added"
    ELSE IF Present(old_current) /\ ~Present(new_current) /\ ~Present(new_legacy)
    THEN "removed"
    ELSE IF Present(old_current) /\ Present(new_legacy) /\ ~Present(new_current)
    THEN "moved_to_legacy"
    ELSE IF Present(old_legacy) /\ ~Present(new_current)
    THEN "legacy_removed"
    ELSE IF Present(old_current) /\ Present(new_current)
    THEN "both_current"
    ELSE "anomalies"

\* A mutant of branch whose Added rule also asks NEW Legacy to be absent.
branch_added_only_current(old_current, old_legacy, new_current, new_legacy) ==
    IF Present(new_current) /\ ~Present(old_current) /\ ~Present(old_legacy)
       /\ ~Present(new_legacy)
    THEN "added"
    ELSE IF Present(old_current) /\ ~Present(new_current) /\ ~Present(new_legacy)
    THEN "removed"
    ELSE IF Present(old_current) /\ Present(new_legacy) /\ ~Present(new_current)
    THEN "moved_to_legacy"
    ELSE IF Present(old_legacy) /\ ~Present(new_current) /\ ~Present(new_legacy)
    THEN "legacy_removed"
    ELSE IF Present(old_current) /\ Present(new_current)
    THEN "both_current"
    ELSE "anomalies"

\* A mutant of branch that tests the Legacy removed rule before the Removed rule.
branch_legacy_first(old_current, old_legacy, new_current, new_legacy) ==
    IF Present(new_current) /\ ~Present(old_current) /\ ~Present(old_legacy)
    THEN "added"
    ELSE IF Present(old_legacy) /\ ~Present(new_current) /\ ~Present(new_legacy)
    THEN "legacy_removed"
    ELSE IF Present(old_current) /\ ~Present(new_current) /\ ~Present(new_legacy)
    THEN "removed"
    ELSE IF Present(old_current) /\ Present(new_legacy) /\ ~Present(new_current)
    THEN "moved_to_legacy"
    ELSE IF Present(old_current) /\ Present(new_current)
    THEN "both_current"
    ELSE "anomalies"

\* The conditions of the if/elif chain: the branch taken for one item number.
branch(old_current, old_legacy, new_current, new_legacy) ==
    IF Present(new_current) /\ ~Present(old_current) /\ ~Present(old_legacy)
    THEN "added"
    ELSE IF Present(old_current) /\ ~Present(new_current) /\ ~Present(new_legacy)
    THEN "removed"
    ELSE IF Present(old_current) /\ Present(new_legacy) /\ ~Present(new_current)
    THEN "moved_to_legacy"
    ELSE IF Present(old_legacy) /\ ~Present(new_current) /\ ~Present(new_legacy)
    THEN "legacy_removed"
    ELSE IF Present(old_current) /\ Present(new_current)
    THEN "both_current"
    ELSE "anomalies"

\* A mutant of has_changes that calls every item of both current sets modified.
has_changes_always(changes) == TRUE

\* `if changes:` a dict is truthy when it is not empty.
has_changes(changes) == DOMAIN changes # {}

\* A mutant of removed_entry that leaves the review flag out.
removed_entry_unflagged(item_num, old_current) ==
    [item_number |-> item_num, item |-> old_current]

\* The entry appended to results['removed'].
removed_entry(item_num, old_current) ==
    [item_number |-> item_num, item |-> old_current, requires_review |-> TRUE]

\* The body of `for item_num in all_item_numbers`: one entry is appended to
\* the list of the branch taken.
classify_item(results, item_num, old_index, new_index) ==
    LET old_entry == EntryOf(old_index, item_num)
        new_entry == EntryOf(new_index, item_num)
        old_current == old_entry.current
        old_legacy == old_entry.legacy
        new_current == new_entry.current
        new_legacy == new_entry.legacy
        taken == branch(old_current, old_legacy, new_current, new_legacy)
        changes == compute_field_changes(old_current, new_current)
    IN  CASE taken = "added" ->
                [results EXCEPT !.added = Append(@,
                    [item_number |-> item_num, item |-> new_current])]
          [] taken = "removed" ->
                [results EXCEPT !.removed = Append(@,
                    removed_entry(item_num, old_current))]
          [] taken = "moved_to_legacy" ->
                [results EXCEPT !.moved_to_legacy = Append(@,
                    [item_number |-> item_num, old_item |-> old_current,
                     new_legacy_item |-> new_legacy])]
          [] taken = "legacy_removed" ->
                [results EXCEPT !.legacy_removed = Append(@,
                    [item_number |-> item_num, item |-> old_legacy])]
          [] taken = "both_current" /\ has_changes(changes) ->
                [results EXCEPT !.modified = Append(@,
                    [item_number |-> item_num, old |-> old_current,
                     new |-> new_current, changes |-> changes])]
          [] taken = "both_current" /\ ~has_changes(changes) ->
                [results EXCEPT !.unchanged = Append(@,
                    [item_number |-> item_num, item |-> new_current])]
          [] OTHER ->
                [results EXCEPT !.anomalies = Append(@,
                    [item_number |-> item_num, old_current |-> old_current,
                     old_legacy |-> old_legacy, new_current |-> new_current,
                     new_legacy |-> new_legacy,
                     description |-> <<"Unusual transition: ">> \o
                         anomaly_desc(old_current, old_legacy, new_current,
                                      new_legacy)])]

\* A mutant of all_item_numbers that forgets the keys of the new index.
all_item_numbers_old_only(old_cat, new_cat) == DOMAIN index_catalogue(old_cat)

\* all_item_numbers = set(old_index.keys()) | set(new_index.keys())
all_item_numbers(old_cat, new_cat) ==
    DOMAIN index_catalogue(old_cat) \cup DOMAIN index_catalogue(new_cat)

\* The orders in which Python may iterate over the set S.
Orders(S) ==
    {f \in [1..Cardinality(S) -> S] :
        \A i, j \in 1..Cardinality(S) : f[i] = f[j] => i = j}

RECURSIVE classify_from(_, _, _, _, _)
classify_from(results, order, i, old_index, new_index) ==
    IF i > Len(order) THEN results
    ELSE classify_from(classify_item(results, order[i], old_index, new_index),
                       order, i + 1, old_index, new_index)

\* compare_catalogues(old_cat, new_cat) -> dict, the set all_item_numbers
\* being iterated in the given order.
compare_catalogues(old_cat, new_cat, order) ==
    classify_from(EmptyResults, order, 1,
                  index_catalogue(old_cat), index_catalogue(new_cat))

(***************************************************************************)
(* get_comparison_summary                                                  *)
(***************************************************************************)
RECURSIVE SumValues(_, _)
SumValues(summary, keys) ==
    IF keys = <<>> THEN 0
    ELSE summary[Head(keys)] + SumValues(summary, Tail(keys))

\* A mutant of get_comparison_summary that adds the total into itself.
get_comparison_summary_twice(comparison_results) ==
    LET summary == [c \in {Categories[i] : i \in 1..Len(Categories)} |->
                       Len(comparison_results[c])]
    IN  ("total_items_compared" :> 2 * SumValues(summary, Categories)) @@ summary

\* get_comparison_summary(comparison_results) -> dict
get_comparison_summary(comparison_results) ==
    LET summary == [c \in {Categories[i] : i \in 1..Len(Categories)} |->
                       Len(comparison_results[c])]
    IN  ("total_items_compared" :> SumValues(summary, Categories)) @@ summary

(***************************************************************************)
(* create_modified_items_table                                             *)
(***************************************************************************)
\* A mutant of change_row that takes the new value for both columns.
change_row_new_twice(item_num, field, change_info) ==
    [item_number |-> item_num, field |-> field,
     old_value |-> change_info.new, new_value |-> change_info.new]

\* The row appended for one (field, change_info) of changes.items().
change_row(item_num, field, change_info) ==
    [item_number |-> item_num, field |-> field,
     old_value |-> change_info.old, new_value |-> change_info.new]

\* `for field, change_info in changes.items()`: a dict is iterated in
\* insertion order, which for a changes dict is the order of
\* fields_to_compare.
RECURSIVE change_rows_from(_, _, _)
change_rows_from(item_num, changes, i) ==
    IF i > Len(fields_to_compare) THEN <<>>
    ELSE (IF fields_to_compare[i] \in DOMAIN changes
          THEN <<change_row(item_num, fields_to_compare[i],
                            changes[fields_to_compare[i]])>>
          ELSE <<>>)
         \o change_rows_from(item_num, changes, i + 1)

\* A mutant of create_modified_items_table that keeps one row per item.
RECURSIVE create_modified_items_table_first_row(_)
create_modified_items_table_first_row(modified_items) ==
    IF modified_items = <<>> THEN <<>>
    ELSE SubSeq(change_rows_from(Head(modified_items).item_number,
                                 Head(modified_items).changes, 1), 1, 1)
         \o create_modified_items_table_first_row(Tail(modified_items))

\* create_modified_items_table(modified_items) -> list
RECURSIVE create_modified_items_table(_)
create_modified_items_table(modified_items) ==
    IF modified_items = <<>> THEN <<>>
    ELSE change_rows_from(Head(modified_items).item_number,
                          Head(modified_items).changes, 1)
         \o create_modified_items_table(Tail(modified_items))

(***************************************************************************)
(* The program's state: the two loaded snapshots, the latest call of       *)
(* compare_catalogues and the call before it (their arguments, the two     *)
(* indexes built and the returned results), and the summary and the        *)
(* modified-items table computed from the latest results; and, for the     *)
(* flat-schema page, the two uploaded catalogues and what the page shows.  *)
(***************************************************************************)
VARIABLES catA, catB, run, prev_run, summary, table, old_file, new_file, page,
          value, normal, old_upload, new_upload, session

vars == <<catA, catB, run, prev_run, summary, table, old_file, new_file, page,
          value, normal, old_upload, new_upload, session>>

split_vars == <<catA, catB, run, prev_run, summary, table>>

flat_vars == <<old_file, new_file, page>>

\* A value handed to _normalize_for_comparison and what has been computed
\* from it.
norm_vars == <<value, normal>>

\* The variables that the operations on the split-schema snapshots, on the
\* flat-schema page and on a single value leave alone.
not_split_vars == <<flat_vars, norm_vars, old_upload, new_upload, session>>

not_flat_vars == <<split_vars, norm_vars, old_upload, new_upload, session>>

not_norm_vars == <<split_vars, flat_vars, old_upload, new_upload, session>>

\* The two file_uploader widgets and st.session_state of the Compare
\* Versions page.
session_vars == <<old_upload, new_upload, session>>

not_session_vars == <<split_vars, flat_vars, norm_vars>>

\* A file_uploader that holds no file.
NoUpload == [none |-> TRUE]

\* `if "old_file_uploaded" not in st.session_state:` the keys set on the
\* first run; a key that is not set yet reads as None (session_state.get).
InitSession ==
    [old_file_uploaded |-> FALSE, new_file_uploaded |-> FALSE,
     old_sheets_info |-> None, new_sheets_info |-> None,
     old_current_sheet |-> None, old_legacy_sheet |-> None,
     new_current_sheet |-> None, new_legacy_sheet |-> None,
     old_json |-> None, new_json |-> None, comparison_results |-> None,
     old_file_path |-> None, old_filename |-> None,
     new_file_path |-> None, new_filename |-> None,
     old_current_select |-> None, old_legacy_select |-> None,
     new_current_select |-> None, new_legacy_select |-> None]

\* Nothing normalized yet.
NoNormal == [none |-> TRUE]

\* No file uploaded; nothing shown yet.
NoFile == [none |-> TRUE]

NoPage == [none |-> TRUE]

NoRun == [none |-> TRUE]

NoSummary == [none |-> TRUE]

NoTable == [none |-> TRUE]

\* The snapshot an argument names.
Cat(name, a, b) == IF name = "A" THEN a ELSE b

(***************************************************************************)
(* Inputs.                                                                 *)
(***************************************************************************)
\* The most rows the two snapshots hold together, in the first input family.
MaxRows == 3

Row(num, name, price) ==
    [item_number |-> num, support_name |-> name, price_limit_nsw |-> price,
     raw_row_index |-> PyInt(2)]

\* Two rows of item A1 with different names, and a row of item B2.
Rows ==
    {Row(Str(<<"A", "1">>), Str(<<"A", "b">>), Float(100)),
     Row(Str(<<"A", "1">>), Str(<<"b">>), Float(100)),
     Row(Str(<<"B", "2">>), Str(<<"b">>), Float(100))}

\* Rows without identifier: the key is missing, None, or the empty string.
NoIdRows ==
    {[support_name |-> Str(<<"b">>), price_limit_nsw |-> Float(100),
      raw_row_index |-> PyInt(2)],
     Row(None, Str(<<"b">>), Float(100)),
     Row(Str(<<>>), Str(<<"b">>), Float(100))}

RowSeqs == UNION {[1..k -> Rows] : k \in 0..MaxRows}

\* First family: up to MaxRows rows, dealt in order to the four collections.
InitRows ==
    \E rows \in RowSeqs :
      \E i, j, k \in 0..Len(rows) :
        /\ i <= j /\ j <= k
        /\ catA = [current_items |-> SubSeq(rows, 1, i),
                   legacy_items |-> SubSeq(rows, i + 1, j)]
        /\ catB = [current_items |-> SubSeq(rows, j + 1, k),
                   legacy_items |-> SubSeq(rows, k + 1, Len(rows))]

\* Second family: the same snapshot loaded twice, of up to MaxRows rows.
InitSame ==
    \E rows \in RowSeqs :
      \E i \in 0..Len(rows) :
        /\ catA = [current_items |-> SubSeq(rows, 1, i),
                   legacy_items |-> SubSeq(rows, i + 1, Len(rows))]
        /\ catB = catA

\* Third family: one current item A1 on each side, with any field values.
NameValues ==
    {None, Str(<<>>), Str(<<" ">>), Str(<<"C", "h", "a", "i", "r">>),
     Str(<<" ", "c", "h", "a", "i", "r", " ">>), Str(<<"b">>)}

PriceValues ==
    {None, Float(0), Float(100), Float(110), Str(<<"1", "0", "0", ".", "0">>)}

InitPair ==
    \E n1, n2 \in NameValues, p1, p2 \in PriceValues :
        /\ catA = [current_items |-> <<Row(Str(<<"A", "1">>), n1, p1)>>,
                   legacy_items |-> <<>>]
        /\ catB = [current_items |-> <<Row(Str(<<"A", "1">>), n2, p2)>>,
                   legacy_items |-> <<>>]

\* Fourth family: items A1 and B2 in both current sets.
TwoNames == {Str(<<"C", "h", "a", "i", "r">>), Str(<<"b">>)}

TwoPrices == {Float(100), Float(110)}

InitTwo ==
    \E n1, n2 \in TwoNames, p1, p2, p3, p4 \in TwoPrices :
        /\ catA = [current_items |-> <<Row(Str(<<"A", "1">>), n1, p1),
                                       Row(Str(<<"B", "2">>), Str(<<"b">>), p2)>>,
                   legacy_items |-> <<>>]
        /\ catB = [current_items |-> <<Row(Str(<<"B", "2">>), Str(<<"b">>), p3),
                                       Row(Str(<<"A", "1">>), n2, p4)>>,
                   legacy_items |-> <<>>]

\* Fifth family: a row without identifier among rows that have one.
InitNoId ==
    \E x1 \in NoIdRows, x2 \in Rows, x3, x4 \in Rows \cup NoIdRows :
        /\ catA = [current_items |-> <<x1, x2>>, legacy_items |-> <<>>]
        /\ catB = [current_items |-> <<x3>>, legacy_items |-> <<x4>>]

\* Sixth family: item A1 in both current sets, found at another row of the
\* sheet in the second snapshot.
RowIndexes == {PyInt(3), PyInt(7)}

InitRowIndex ==
    \E n1, n2 \in TwoNames, p1, p2 \in TwoPrices, idx \in RowIndexes :
        /\ catA = [current_items |-> <<Row(Str(<<"A", "1">>), n1, p1)>>,
                   legacy_items |-> <<>>]
        /\ catB = [current_items |->
                       <<[Row(Str(<<"A", "1">>), n2, p2)
                             EXCEPT !.raw_row_index = idx]>>,
                   legacy_items |-> <<>>]

Init ==
    /\ InitRows \/ InitSame \/ InitPair \/ InitTwo \/ InitNoId \/ InitRowIndex
    /\ run = NoRun
    /\ prev_run = NoRun
    /\ summary = NoSummary
    /\ table = NoTable
    /\ old_file = NoFile
    /\ new_file = NoFile
    /\ page = NoPage
    /\ value = None
    /\ normal = NoNormal
    /\ old_upload = NoUpload
    /\ new_upload = NoUpload
    /\ session = InitSession

(***************************************************************************)
(* Operations.                                                             *)
(***************************************************************************)
\* A mutant of CompareCatalogues whose result buckets outlive the call: the
\* entries of the call before stay in them.
CompareCatalogues_shared_buckets(old, new) ==
    \E order \in Orders(all_item_numbers(Cat(old, catA, catB), Cat(new, catA, catB))) :
        /\ run' = [old |-> old, new |-> new,
                   old_index |-> index_catalogue(Cat(old, catA, catB)),
                   new_index |-> index_catalogue(Cat(new, catA, catB)),
                   results |-> classify_from(
                                   IF run = NoRun THEN EmptyResults ELSE run.results,
                                   order, 1,
                                   index_catalogue(Cat(old, catA, catB)),
                                   index_catalogue(Cat(new, catA, catB)))]
        /\ prev_run' = run
        /\ summary' = NoSummary
        /\ table' = NoTable
        /\ UNCHANGED <<catA, catB>>
        /\ UNCHANGED not_split_vars

\* A call compare_catalogues(old, new) on two of the loaded snapshots.
CompareCatalogues(old, new) ==
    \E order \in Orders(all_item_numbers(Cat(old, catA, catB), Cat(new, catA, catB))) :
        /\ run' = [old |-> old, new |-> new,
                   old_index |-> index_catalogue(Cat(old, catA, catB)),
                   new_index |-> index_catalogue(Cat(new, catA, catB)),
                   results |-> compare_catalogues(Cat(old, catA, catB),
                                                  Cat(new, catA, catB), order)]
        /\ prev_run' = run
        /\ summary' = NoSummary
        /\ table' = NoTable
        /\ UNCHANGED <<catA, catB>>
        /\ UNCHANGED not_split_vars

\* A call get_comparison_summary(results) on the latest results.
GetComparisonSummary ==
    /\ run # NoRun
    /\ summary = NoSummary
    /\ summary' = get_comparison_summary(run.results)
    /\ UNCHANGED <<catA, catB, run, prev_run, table>>
    /\ UNCHANGED not_split_vars

\* The Modified expander of the results page, drawn after the summary:
\* `if results["modified"]:` create_modified_items_table(results["modified"]).
CreateModifiedItemsTable ==
    /\ run # NoRun
    /\ summary # NoSummary
    /\ table = NoTable
    /\ run.results.modified # <<>>
    /\ table' = [rows |-> create_modified_items_table(run.results.modified)]
    /\ UNCHANGED <<catA, catB, run, prev_run, summary>>
    /\ UNCHANGED not_split_vars

Next ==
    \/ CompareCatalogues("A", "B")
    \/ CompareCatalogues("B", "A")
    \/ GetComparisonSummary
    \/ CreateModifiedItemsTable

Spec == Init /\ [][Next]_vars

(***************************************************************************)
(* The flat-schema page, pages/2_compare_versions.py.  It imports STATES   *)
(* and diff_catalogues from version_diff, which does not define them: they *)
(* are modelled from the Field-Diff Engine and Aggregator contracts, with  *)
(* percentages as exact fractions.                                         *)
(***************************************************************************)
Abs(k) == IF k < 0 THEN 0 - k ELSE k

RECURSIVE GCD(_, _)
GCD(a, b) == IF b = 0 THEN a ELSE GCD(b, a % b)

\* The fraction a / b in lowest terms with a positive denominator (b # 0).
Rat(a, b) ==
    LET g == GCD(Abs(a), Abs(b))
        sgn == IF b < 0 THEN 0 - 1 ELSE 1
    IN  [num |-> (sgn * a) \div g, den |-> (sgn * b) \div g]

RatLess(x, y) == x.num * y.den < y.num * x.den

RatLeq(x, y) == x.num * y.den <= y.num * x.den

RatAdd(x, y) == Rat(x.num * y.den + y.num * x.den, x.den * y.den)

RECURSIVE RatSum(_)
RatSum(xs) == IF xs = <<>> THEN Rat(0, 1) ELSE RatAdd(Head(xs), RatSum(Tail(xs)))

RECURSIVE RatMin(_)
RatMin(xs) ==
    IF Len(xs) = 1 THEN xs[1]
    ELSE LET m == RatMin(Tail(xs)) IN IF RatLess(m, Head(xs)) THEN m ELSE Head(xs)

RECURSIVE RatMax(_)
RatMax(xs) ==
    IF Len(xs) = 1 THEN xs[1]
    ELSE LET m == RatMax(Tail(xs)) IN IF RatLess(Head(xs), m) THEN m ELSE Head(xs)

\* The region codes, two of them.
STATES == <<"ACT", "NSW">>

\* The claim-type flags, one of them.
CLAIM_TYPES == <<<<"n", "o", "n", "_", "f", "2", "f">>>>

\* change_pct = (new - old) / old * 100
change_pct(old, new) == Rat((new.n - old.n) * 100, old.n)

\* The eligibility rule of a price pair: both present, old non-zero, and
\* old # new.
eligible(old, new) ==
    /\ old # None
    /\ new # None
    /\ old.n # 0
    /\ old.n # new.n

\* The PriceChange values of an item, by region.
price_changes_of(old_item, new_item) ==
    LET changed == {s \in {STATES[i] : i \in 1..Len(STATES)} :
                       eligible(Get(old_item.price_limits, s),
                                Get(new_item.price_limits, s))}
    IN  [s \in changed |->
            [region |-> s,
             old |-> Get(old_item.price_limits, s),
             new |-> Get(new_item.price_limits, s),
             change_pct |-> change_pct(Get(old_item.price_limits, s),
                                       Get(new_item.price_limits, s))]]

\* A claim-type flag of an item, false when absent.
flag_of(item, ct) == IF ct \in DOMAIN item.claim_types THEN item.claim_types[ct] ELSE FALSE

\* The ClaimTypeChange values of an item, by flag.
claim_type_changes_of(old_item, new_item) ==
    LET changed == {ct \in {CLAIM_TYPES[i] : i \in 1..Len(CLAIM_TYPES)} :
                       flag_of(old_item, ct) # flag_of(new_item, ct)}
    IN  [ct \in changed |-> [old |-> flag_of(old_item, ct), new |-> flag_of(new_item, ct)]]

\* The item numbers of a flat catalogue, and the item of a number.
flat_numbers(catalogue) ==
    {catalogue.support_items[i].support_item_number :
        i \in 1..Len(catalogue.support_items)}

flat_item(catalogue, num) ==
    LET at == {i \in 1..Len(catalogue.support_items) :
                  catalogue.support_items[i].support_item_number = num}
    IN  catalogue.support_items[CHOOSE i \in at : \A j \in at : j <= i]

\* The Modified entries: the items of both catalogues with at least one
\* change, in the order of the new catalogue.
RECURSIVE modified_from(_, _)
modified_from(old_catalogue, new_items) ==
    IF new_items = <<>> THEN <<>>
    ELSE LET new_item == Head(new_items)
             num == new_item.support_item_number
             rest == modified_from(old_catalogue, Tail(new_items))
         IN  IF num \notin flat_numbers(old_catalogue) THEN rest
             ELSE LET old_item == flat_item(old_catalogue, num)
                      prices == price_changes_of(old_item, new_item)
                      claims == claim_type_changes_of(old_item, new_item)
                  IN  IF DOMAIN prices = {} /\ DOMAIN claims = {} THEN rest
                      ELSE <<[support_item_number |-> num,
                              name |-> new_item.support_item_name,
                              price_changes |-> prices,
                              claim_type_changes |-> claims]>> \o rest

\* The change_pct values of a region over all the modified items.
RECURSIVE region_pcts(_, _)
region_pcts(modified_items, s) ==
    IF modified_items = <<>> THEN <<>>
    ELSE (IF s \in DOMAIN Head(modified_items).price_changes
          THEN <<Head(modified_items).price_changes[s].change_pct>>
          ELSE <<>>) \o region_pcts(Tail(modified_items), s)

\* aggregate(modifiedItems): the RegionStats of every region with a change.
aggregate(modified_items) ==
    LET with_changes == {s \in {STATES[i] : i \in 1..Len(STATES)} :
                            region_pcts(modified_items, s) # <<>>}
    IN  [s \in with_changes |->
            LET pcts == region_pcts(modified_items, s)
                total == RatSum(pcts)
            IN  [count |-> Len(pcts),
                 avg |-> Rat(total.num, total.den * Len(pcts)),
                 min |-> RatMin(pcts),
                 max |-> RatMax(pcts),
                 increases |-> Cardinality({i \in 1..Len(pcts) : pcts[i].num > 0}),
                 decreases |-> Cardinality({i \in 1..Len(pcts) : pcts[i].num < 0})]]

\* diff_catalogues(old_catalogue, new_catalogue)
diff_catalogues(old_catalogue, new_catalogue) ==
    LET InOld(item) == item.support_item_number \in flat_numbers(old_catalogue)
        InNew(item) == item.support_item_number \in flat_numbers(new_catalogue)
        NotInOld(item) == ~InOld(item)
        NotInNew(item) == ~InNew(item)
        modified_items == modified_from(old_catalogue, new_catalogue.support_items)
    IN  [added_count |-> Len(SelectSeq(new_catalogue.support_items, NotInOld)),
         removed_count |-> Len(SelectSeq(old_catalogue.support_items, NotInNew)),
         modified_count |-> Len(modified_items),
         unchanged_count |-> Len(SelectSeq(new_catalogue.support_items, InOld))
                                 - Len(modified_items),
         old_version |-> old_catalogue.version,
         new_version |-> new_catalogue.version,
         added_items |-> SelectSeq(new_catalogue.support_items, NotInOld),
         removed_items |-> SelectSeq(old_catalogue.support_items, NotInNew),
         modified_items |-> modified_items,
         price_stats_by_state |-> aggregate(modified_items)]


(***************************************************************************)
(* The page's own code: the tables it shows and the JSON export.           *)
(***************************************************************************)
\* round(x * 100) to an integer, ties to even: the hundredths that
\* round(x, 2) and the format `.2f` keep.
Hundredths(x) ==
    LET n == Abs(x.num) * 100
        q == n \div x.den
        r == n % x.den
        up == 2 * r > x.den \/ (2 * r = x.den /\ q % 2 = 1)
    IN  (IF x.num < 0 THEN 0 - 1 ELSE 1) * (IF up THEN q + 1 ELSE q)

\* round(pc.change_pct, 2)
round2(x) == Rat(Hundredths(x), 100)

\* f"{x:+.2f}%"
format_pct(x) ==
    LET h == Abs(Hundredths(x))
    IN  (IF x.num < 0 THEN <<"-">> ELSE <<"+">>)
        \o NatChars(h \div 100)
        \o <<".", Digits[((h \div 10) % 10) + 1], Digits[(h % 10) + 1], "%">>

UpperChar(c) ==
    IF \E i \in 1..Len(LowerChars) : LowerChars[i] = c
    THEN UpperChars[CHOOSE i \in 1..Len(LowerChars) : LowerChars[i] = c]
    ELSE c

IsCased(c) == UpperChar(c) # c \/ LowerChar(c) # c

\* ct.replace("_", " ").title()
Title(chars) ==
    LET spaced == [i \in 1..Len(chars) |-> IF chars[i] = "_" THEN " " ELSE chars[i]]
    IN  [i \in 1..Len(spaced) |->
            IF i > 1 /\ IsCased(spaced[i - 1]) THEN LowerChar(spaced[i])
            ELSE UpperChar(spaced[i])]

\* A mutant of serialisable_price_change that writes the new price twice.
serialisable_price_change_new_twice(pc) ==
    [old |-> pc.new, new |-> pc.new, change_pct |-> pc.change_pct]

\* One value of the "price_changes" dict of serialisable_diff.
serialisable_price_change(pc) ==
    [old |-> pc.old, new |-> pc.new, change_pct |-> pc.change_pct]

\* One element of the "modified_items" list of serialisable_diff.
serialisable_modified(m) ==
    [support_item_number |-> m.support_item_number,
     name |-> m.name,
     price_changes |-> [st \in DOMAIN m.price_changes |->
                           serialisable_price_change(m.price_changes[st])],
     claim_type_changes |-> [ct \in DOMAIN m.claim_type_changes |->
                                [old |-> m.claim_type_changes[ct].old,
                                 new |-> m.claim_type_changes[ct].new]]]

\* serialisable_diff(diff)
serialisable_diff(diff) ==
    [summary |-> [added |-> diff.added_count,
                  removed |-> diff.removed_count,
                  modified |-> diff.modified_count,
                  unchanged |-> diff.unchanged_count,
                  old_version |-> diff.old_version,
                  new_version |-> diff.new_version],
     added_items |-> diff.added_items,
     removed_items |-> diff.removed_items,
     modified_items |-> [i \in 1..Len(diff.modified_items) |->
                            serialisable_modified(diff.modified_items[i])]]

\* A mutant of stats_row that shows the number of increases in both the
\* "+" and the "-" column.
stats_row_increases_twice(state, st) ==
    ("State" :> state) @@ ("Items changed" :> st.count)
    @@ ("Avg %" :> format_pct(st.avg))
    @@ ("Min %" :> format_pct(st.min))
    @@ ("Max %" :> format_pct(st.max))
    @@ ("+" :> st.increases) @@ ("-" :> st.increases)

\* A mutant of stats_row that shows the maximum as the minimum and the
\* minimum as the maximum.
stats_row_min_max_swapped(state, st) ==
    ("State" :> state) @@ ("Items changed" :> st.count)
    @@ ("Avg %" :> format_pct(st.avg))
    @@ ("Min %" :> format_pct(st.max))
    @@ ("Max %" :> format_pct(st.min))
    @@ ("+" :> st.increases) @@ ("-" :> st.decreases)

\* The row of the price statistics table for one state.
stats_row(state, st) ==
    ("State" :> state) @@ ("Items changed" :> st.count)
    @@ ("Avg %" :> format_pct(st.avg))
    @@ ("Min %" :> format_pct(st.min))
    @@ ("Max %" :> format_pct(st.max))
    @@ ("+" :> st.increases) @@ ("-" :> st.decreases)

\* `for state, s in diff.price_stats_by_state.items()`, in the order of STATES.
RECURSIVE stats_rows_from(_, _)
stats_rows_from(stats, i) ==
    IF i > Len(STATES) THEN <<>>
    ELSE (IF STATES[i] \in DOMAIN stats
          THEN <<stats_row(STATES[i], stats[STATES[i]])>>
          ELSE <<>>) \o stats_rows_from(stats, i + 1)

\* What st.info("No price changes detected.") shows instead of the table.
NoPriceChanges == [info |-> "No price changes detected."]

\* A mutant of price_stats_table that draws the table even when the map is
\* empty.
price_stats_table_always(diff) ==
    [rows |-> stats_rows_from(diff.price_stats_by_state, 1)]

\* `if diff.price_stats_by_state:` the table, else the information line.
price_stats_table(diff) ==
    IF DOMAIN diff.price_stats_by_state # {}
    THEN [rows |-> stats_rows_from(diff.price_stats_by_state, 1)]
    ELSE NoPriceChanges

\* f"{state_for_table} price" and f"{state_for_table} price (old)"
price_label(state_for_table) ==
    IF state_for_table = "ACT" THEN "ACT price" ELSE "NSW price"

price_label_old(state_for_table) ==
    IF state_for_table = "ACT" THEN "ACT price (old)" ELSE "NSW price (old)"

\* One element of added_rows or removed_rows.
item_row(item, label, state_for_table) ==
    ("Support item number" :> item.support_item_number)
    @@ ("Name" :> item.support_item_name)
    @@ ("Category" :> item.support_category_name)
    @@ (label :> Get(item.price_limits, state_for_table))

\* A mutant of direction that calls a positive percentage a decrease.
direction_inverted(pc) == IF pc.change_pct.num > 0 THEN "Decrease" ELSE "Increase"

\* "Increase" if pc.change_pct > 0 else "Decrease"
direction(pc) == IF pc.change_pct.num > 0 THEN "Increase" ELSE "Decrease"

\* price_change_rows: `if pc := m.price_changes.get(state_for_table)`
RECURSIVE price_change_rows(_, _)
price_change_rows(modified_items, state_for_table) ==
    IF modified_items = <<>> THEN <<>>
    ELSE LET m == Head(modified_items)
         IN  (IF state_for_table \in DOMAIN m.price_changes
              THEN LET pc == m.price_changes[state_for_table]
                   IN  <<("Support item number" :> m.support_item_number)
                         @@ ("Name" :> m.name)
                         @@ ("Old" :> pc.old)
                         @@ ("New" :> pc.new)
                         @@ ("Change %" :> round2(pc.change_pct))
                         @@ ("Direction" :> direction(pc))>>
              ELSE <<>>) \o price_change_rows(Tail(modified_items), state_for_table)

\* claim_rows: one row per claim-type change of every modified item.
RECURSIVE claim_rows_of(_, _)
claim_rows_of(m, i) ==
    IF i > Len(CLAIM_TYPES) THEN <<>>
    ELSE (IF CLAIM_TYPES[i] \in DOMAIN m.claim_type_changes
          THEN LET ch == m.claim_type_changes[CLAIM_TYPES[i]]
               IN  <<("Support item number" :> m.support_item_number)
                     @@ ("Name" :> m.name)
                     @@ ("Claim type" :> Title(CLAIM_TYPES[i]))
                     @@ ("Old" :> IF ch.old THEN "Yes" ELSE "No")
                     @@ ("New" :> IF ch.new THEN "Yes" ELSE "No")>>
          ELSE <<>>) \o claim_rows_of(m, i + 1)

RECURSIVE claim_rows(_)
claim_rows(modified_items) ==
    IF modified_items = <<>> THEN <<>>
    ELSE claim_rows_of(Head(modified_items), 1) \o claim_rows(Tail(modified_items))

(***************************************************************************)
(* The flat-schema page as a state machine: two uploaded catalogues and    *)
(* the `if run_button:` handler, which computes the diff and everything    *)
(* the page shows from it.  diff_to_markdown and generate_pdf_from_markdown *)
(* are not in the source and their downloads are left out of the page.     *)
(***************************************************************************)
FlatItem(num, limits, flags) ==
    [support_item_number |-> Str(num),
     support_item_name |-> Str(<<"b">>),
     support_category_name |-> Str(<<"c">>),
     price_limits |-> limits,
     claim_types |-> flags]

FlatPrices == {None, Float(0), Float(100), Float(110), Float(0 - 100)}

PresentPrices == {Float(100), Float(110), Float(0 - 100)}

NoFlags == [ct \in {} |-> FALSE]

\* Item A1 in both catalogues with prices in both regions, item B2 in both
\* with an NSW price only, C3 in the old catalogue only and D4 in the new
\* catalogue only.
InitFlat ==
    /\ \E n1, n2 \in FlatPrices, n3, n4 \in PresentPrices :
       \E a1 \in {None, Float(100)}, a2 \in {Float(100), Float(110)}, f \in BOOLEAN :
           /\ old_file =
                  [version |-> "v1",
                   support_items |->
                       <<FlatItem(<<"A", "1">>, [ACT |-> a1, NSW |-> n1], NoFlags),
                         FlatItem(<<"B", "2">>, [NSW |-> n3], NoFlags),
                         FlatItem(<<"C", "3">>, [NSW |-> Float(100)], NoFlags)>>]
           /\ new_file =
                  [version |-> "v2",
                   support_items |->
                       <<FlatItem(<<"B", "2">>, [NSW |-> n4], NoFlags),
                         FlatItem(<<"A", "1">>, [ACT |-> a2, NSW |-> n2],
                                  [ct \in {CLAIM_TYPES[1]} |-> f]),
                         FlatItem(<<"D", "4">>, [ACT |-> Float(110)], NoFlags)>>]
    /\ page = NoPage
    /\ catA = [current_items |-> <<>>, legacy_items |-> <<>>]
    /\ catB = [current_items |-> <<>>, legacy_items |-> <<>>]
    /\ run = NoRun
    /\ prev_run = NoRun
    /\ summary = NoSummary
    /\ table = NoTable
    /\ value = None
    /\ normal = NoNormal
    /\ old_upload = NoUpload
    /\ new_upload = NoUpload
    /\ session = InitSession

\* `if run_button:` with both files uploaded and a state selected.
RunComparison(state_for_table) ==
    /\ old_file # NoFile
    /\ new_file # NoFile
    /\ LET diff == diff_catalogues(old_file, new_file)
       IN  page' =
               [state_for_table |-> state_for_table,
                diff |-> diff,
                metrics |-> [Added |-> diff.added_count,
                             Removed |-> diff.removed_count,
                             Modified |-> diff.modified_count,
                             Unchanged |-> diff.unchanged_count],
                price_stats |-> price_stats_table(diff),
                added_rows |->
                    [i \in 1..Len(diff.added_items) |->
                        item_row(diff.added_items[i], price_label(state_for_table),
                                 state_for_table)],
                removed_rows |->
                    [i \in 1..Len(diff.removed_items) |->
                        item_row(diff.removed_items[i],
                                 price_label_old(state_for_table), state_for_table)],
                price_change_rows |->
                    price_change_rows(diff.modified_items, state_for_table),
                claim_rows |-> claim_rows(diff.modified_items),
                json_payload |-> serialisable_diff(diff)]
    /\ UNCHANGED <<old_file, new_file>>
    /\ UNCHANGED not_flat_vars

NextFlat == \E state_for_table \in {STATES[i] : i \in 1..Len(STATES)} :
                RunComparison(state_for_table)

SpecFlat == InitFlat /\ [][NextFlat]_vars

(***************************************************************************)
(* The Compare Versions page: uploads, sheet mapping, convert and compare. *)
(* Every interaction reruns the page script from the top.                  *)
(***************************************************************************)
\* An uploaded workbook: its file name and its sheets in workbook order,
\* each sheet with the items convert_sheet_to_items reads from it.
Workbook(name, current_rows, legacy_rows) ==
    [name |-> Str(name),
     sheets |-> <<[name |-> Str(<<"C", "u", "r", "r", "e", "n", "t">>),
                   rows |-> current_rows],
                  [name |-> Str(<<"L", "e", "g", "a", "c", "y">>),
                   rows |-> legacy_rows]>>]

OldName == <<"o", ".", "x", "l", "s", "x">>

NewName == <<"n", ".", "x", "l", "s", "x">>

\* Item A1 as a current item.
FirstRows == <<Row(Str(<<"A", "1">>), Str(<<"C", "h", "a", "i", "r">>), Float(100))>>

\* Item A1 renamed and repriced.
SecondRows == <<Row(Str(<<"A", "1">>), Str(<<"b">>), Float(110))>>

\* Item B2 as a legacy item.
LegacyRows == <<Row(Str(<<"B", "2">>), Str(<<"b">>), Float(100))>>

\* The workbooks the user has, with different names and contents.
Workbooks ==
    {Workbook(OldName, FirstRows, <<>>),
     Workbook(NewName, SecondRows, LegacyRows)}

\* xlsx_to_json.get_sheet_info: the sheets of the workbook, by name.
get_sheet_info(file) ==
    [i \in 1..Len(file.sheets) |-> [name |-> file.sheets[i].name]]

\* `sub in text`
Contains(text, sub) ==
    \E i \in 0..(Len(text) - Len(sub)) :
        \A j \in 1..Len(sub) : text[i + j] = sub[j]

\* `"current" in s.lower() and "catalogue" not in s.lower()`
is_current_name(low) ==
    /\ Contains(low, <<"c", "u", "r", "r", "e", "n", "t">>)
    /\ ~Contains(low, <<"c", "a", "t", "a", "l", "o", "g", "u", "e">>)

\* `"legacy" in s.lower() or "deactivated" in s.lower()`
is_legacy_name(low) ==
    \/ Contains(low, <<"l", "e", "g", "a", "c", "y">>)
    \/ Contains(low, <<"d", "e", "a", "c", "t", "i", "v", "a", "t", "e", "d">>)

\* `for s in opts: if ...: default = s; break` the index of the first option
\* that passes the test of the CURRENT or of the LEGACY selectbox, or 0.
RECURSIVE default_from(_, _, _)
default_from(opts, i, kind) ==
    IF i > Len(opts) THEN 0
    ELSE IF (IF kind = "current" THEN is_current_name(Lower(opts[i].s))
             ELSE is_legacy_name(Lower(opts[i].s))) THEN i
    ELSE default_from(opts, i + 1, kind)

\* st.selectbox(options=opts, index=opts.index(default) if default else 0,
\* key=...): the option the user chose, or the option at the index.
selectbox(sheets_info, chosen, kind) ==
    LET opts == [i \in 1..Len(sheets_info) |-> sheets_info[i].name]
        default == default_from(opts, 1, kind)
    IN  IF \E i \in 1..Len(opts) : opts[i] = chosen THEN chosen
        ELSE IF default # 0 THEN opts[default]
        ELSE opts[1]

\* `if old_file:` Handle OLD upload.
handle_old_upload(state, file) ==
    IF file # NoUpload
           /\ (~state.old_file_uploaded \/ state.old_filename # file.name)
    THEN [state EXCEPT !.old_sheets_info = get_sheet_info(file),
                       !.old_file_path = file,
                       !.old_filename = file.name,
                       !.old_file_uploaded = TRUE]
    ELSE state

\* `if new_file:` Handle NEW upload.
handle_new_upload(state, file) ==
    IF file # NoUpload
           /\ (~state.new_file_uploaded \/ state.new_filename # file.name)
    THEN [state EXCEPT !.new_sheets_info = get_sheet_info(file),
                       !.new_file_path = file,
                       !.new_filename = file.name,
                       !.new_file_uploaded = TRUE]
    ELSE state

\* Step 2, inside `if old_file_uploaded and new_file_uploaded:` the four
\* selectboxes and the session keys they set.
map_sheets(state) ==
    IF state.old_file_uploaded /\ state.new_file_uploaded
    THEN LET old_current == selectbox(state.old_sheets_info,
                                      state.old_current_select, "current")
             old_legacy == selectbox(state.old_sheets_info,
                                     state.old_legacy_select, "legacy")
             new_current == selectbox(state.new_sheets_info,
                                      state.new_current_select, "current")
             new_legacy == selectbox(state.new_sheets_info,
                                     state.new_legacy_select, "legacy")
         IN  [state EXCEPT !.old_current_select = old_current,
                           !.old_current_sheet = old_current,
                           !.old_legacy_select = old_legacy,
                           !.old_legacy_sheet = old_legacy,
                           !.new_current_select = new_current,
                           !.new_current_sheet = new_current,
                           !.new_legacy_select = new_legacy,
                           !.new_legacy_sheet = new_legacy]
    ELSE state

\* One run of the page script down to Step 3, no button pressed.
rerun(state, old, new) ==
    map_sheets(handle_new_upload(handle_old_upload(state, old), new))

\* pd.read_excel(file_path, sheet_name=...) and convert_sheet_to_items.
read_sheet(file, sheet_name) ==
    LET i == CHOOSE k \in 1..Len(file.sheets) : file.sheets[k].name = sheet_name
    IN  file.sheets[i].rows

\* xlsx_to_json.convert_catalogue_to_json
convert_catalogue_to_json(file_path, current_sheet_name, legacy_sheet_name, source_filename) ==
    [metadata |-> [source_filename |-> source_filename,
                   current |-> current_sheet_name,
                   legacy |-> legacy_sheet_name],
     current_items |-> read_sheet(file_path, current_sheet_name),
     legacy_items |-> IF Truthy(legacy_sheet_name)
                      THEN read_sheet(file_path, legacy_sheet_name)
                      ELSE <<>>]

\* Step 5, `if st.session_state.comparison_results:` inside the block of
\* Step 2: the comparison results the page shows, None when it shows none.
displayed_results(state) ==
    IF state.old_file_uploaded /\ state.new_file_uploaded
           /\ state.comparison_results # None
    THEN state.comparison_results
    ELSE None

InitPage ==
    /\ old_upload = NoUpload
    /\ new_upload = NoUpload
    /\ session = InitSession
    /\ catA = [current_items |-> <<>>, legacy_items |-> <<>>]
    /\ catB = [current_items |-> <<>>, legacy_items |-> <<>>]
    /\ run = NoRun
    /\ prev_run = NoRun
    /\ summary = NoSummary
    /\ table = NoTable
    /\ old_file = NoFile
    /\ new_file = NoFile
    /\ page = NoPage
    /\ value = None
    /\ normal = NoNormal

\* The user puts a workbook into the OLD uploader.
UploadOld(file) ==
    /\ old_upload # file
    /\ old_upload' = file
    /\ session' = rerun(session, file, new_upload)
    /\ UNCHANGED new_upload
    /\ UNCHANGED not_session_vars

\* The user puts a workbook into the NEW uploader.
UploadNew(file) ==
    /\ new_upload # file
    /\ new_upload' = file
    /\ session' = rerun(session, old_upload, file)
    /\ UNCHANGED old_upload
    /\ UNCHANGED not_session_vars

\* The user picks a sheet in one of the four selectboxes of Step 2.
SelectSheet(key, sheet_name) ==
    /\ session.old_file_uploaded /\ session.new_file_uploaded
    /\ session[key] # sheet_name
    /\ session' = rerun([session EXCEPT ![key] = sheet_name], old_upload, new_upload)
    /\ UNCHANGED <<old_upload, new_upload>>
    /\ UNCHANGED not_session_vars

\* The user presses "Convert to JSON and Run Comparison".
ConvertAndRunComparison ==
    LET state == rerun(session, old_upload, new_upload)
    IN  /\ state.old_file_uploaded /\ state.new_file_uploaded
        /\ state.old_current_sheet # None /\ state.new_current_sheet # None
        /\ LET old_json == convert_catalogue_to_json(
                               state.old_file_path, state.old_current_sheet,
                               state.old_legacy_sheet, state.old_filename)
               new_json == convert_catalogue_to_json(
                               state.new_file_path, state.new_current_sheet,
                               state.new_legacy_sheet, state.new_filename)
           IN  \E order \in Orders(all_item_numbers(old_json, new_json)) :
                   session' = [state EXCEPT
                                  !.old_json = old_json,
                                  !.new_json = new_json,
                                  !.comparison_results =
                                      compare_catalogues(old_json, new_json, order)]
        /\ UNCHANGED <<old_upload, new_upload>>
        /\ UNCHANGED not_session_vars

SheetNames ==
    {Str(<<"C", "u", "r", "r", "e", "n", "t">>), Str(<<"L", "e", "g", "a", "c", "y">>)}

SelectKeys ==
    {"old_current_select", "old_legacy_select",
     "new_current_select", "new_legacy_select"}

NextPage ==
    \/ \E file \in Workbooks : UploadOld(file)
    \/ \E file \in Workbooks : UploadNew(file)
    \/ \E key \in SelectKeys, sheet_name \in SheetNames : SelectSheet(key, sheet_name)
    \/ ConvertAndRunComparison

SpecPage == InitPage /\ [][NextPage]_vars

(***************************************************************************)
(* Vocabulary of the properties, read off the snapshots themselves.        *)
(***************************************************************************)
CategorySet == {Categories[i] : i \in 1..Len(Categories)}

\* The snapshots a call was given.
OldOf(r) == Cat(r.old, catA, catB)

NewOf(r) == Cat(r.new, catA, catB)

NonEmpty(v) == v.t = "str" /\ v.s # <<>>

\* The non-empty item numbers of a collection.
NumbersIn(rows) ==
    {num \in {Get(rows[i], "item_number") : i \in 1..Len(rows)} : NonEmpty(num)}

InRows(rows, num) == \E i \in 1..Len(rows) : Get(rows[i], "item_number") = num

\* The non-empty item numbers of a snapshot, and of the two snapshots of a call.
NumbersOf(cat) == NumbersIn(cat.current_items) \cup NumbersIn(cat.legacy_items)

NumbersOfCall(r) == NumbersOf(OldOf(r)) \cup NumbersOf(NewOf(r))

\* The last row of a collection that carries the item number.
LastRow(rows, num) ==
    rows[CHOOSE i \in 1..Len(rows) :
            /\ Get(rows[i], "item_number") = num
            /\ \A j \in (i + 1)..Len(rows) : Get(rows[j], "item_number") # num]

\* The places <<category, position>> of the entries of a result.
Places(results) ==
    UNION {{<<c, i>> : i \in 1..Len(results[c])} : c \in CategorySet}

PlacesOf(results, num) ==
    {p \in Places(results) : results[p[1]][p[2]].item_number = num}

\* The item numbers listed under a category.
Listed(results, c) == {results[c][i].item_number : i \in 1..Len(results[c])}

\* The presence pattern of an item number in a call.
Pattern(r, num) ==
    [old_current |-> InRows(OldOf(r).current_items, num),
     old_legacy |-> InRows(OldOf(r).legacy_items, num),
     new_current |-> InRows(NewOf(r).current_items, num),
     new_legacy |-> InRows(NewOf(r).legacy_items, num)]

Called == run # NoRun

----------------------------------------------------------------------------
\* C1: after compare_catalogues, every non-empty item number of either
\* snapshot has exactly one entry in the seven lists together, and every
\* entry's item number is one of those.
C1_Partition ==
    Called =>
        /\ \A num \in NumbersOfCall(run) :
               Cardinality(PlacesOf(run.results, num)) = 1
        /\ \A p \in Places(run.results) :
               run.results[p[1]][p[2]].item_number \in NumbersOfCall(run)

\* C1 witness: a call on snapshots with two item numbers and a row without
\* identifier has returned.
C1_Witness ==
    /\ Called
    /\ Cardinality(NumbersOfCall(run)) = 2
    /\ \E rows \in {OldOf(run).current_items, NewOf(run).current_items,
                    OldOf(run).legacy_items, NewOf(run).legacy_items} :
           \E i \in 1..Len(rows) : ~NonEmpty(Get(rows[i], "item_number"))

\* The decision table of the classifier: the categories the first matching
\* rule allows for a presence pattern.
TableCategories(p) ==
    IF p.new_current /\ ~p.old_current /\ ~p.old_legacy THEN {"added"}
    ELSE IF p.old_current /\ ~p.new_current /\ ~p.new_legacy THEN {"removed"}
    ELSE IF p.old_current /\ p.new_legacy /\ ~p.new_current THEN {"moved_to_legacy"}
    ELSE IF p.old_legacy /\ ~p.new_current /\ ~p.new_legacy THEN {"legacy_removed"}
    ELSE IF p.old_current /\ p.new_current THEN {"modified", "unchanged"}
    ELSE {"anomalies"}

\* C2: every item number is listed under the category that the decision
\* table, read in priority order, gives for its presence pattern; an item in
\* OLD Current and OLD Legacy that is absent from NEW is Removed.
C2_DecisionTable ==
    Called =>
        \A num \in NumbersOfCall(run) :
            /\ \A p \in PlacesOf(run.results, num) :
                   p[1] \in TableCategories(Pattern(run, num))
            /\ (Pattern(run, num) = [old_current |-> TRUE, old_legacy |-> TRUE,
                                     new_current |-> FALSE, new_legacy |-> FALSE])
                   => num \in Listed(run.results, "removed")

\* C2 witness: an item in OLD Current and OLD Legacy, absent from NEW, has
\* been classified.
C2_Witness ==
    /\ Called
    /\ \E num \in NumbersOfCall(run) :
           /\ Pattern(run, num) = [old_current |-> TRUE, old_legacy |-> TRUE,
                                   new_current |-> FALSE, new_legacy |-> FALSE]
           /\ PlacesOf(run.results, num) # {}

\* A call whose two arguments are the same snapshot.
SelfCall == Called /\ OldOf(run) = NewOf(run)

\* C3: comparing a snapshot against itself yields no Added, Removed,
\* MovedToLegacy, LegacyRemoved or Anomaly entry.  The classifier lists an
\* item that is only in legacy on both sides under anomalies, so this fails.
C3_SelfComparisonClean ==
    SelfCall =>
        /\ run.results.added = <<>>
        /\ run.results.removed = <<>>
        /\ run.results.moved_to_legacy = <<>>
        /\ run.results.legacy_removed = <<>>
        /\ run.results.anomalies = <<>>

\* C4: comparing a snapshot against itself yields no Modified entry, and as
\* many Unchanged entries as current_items has distinct non-empty item
\* numbers.
C4_SelfComparisonUnchanged ==
    SelfCall =>
        /\ run.results.modified = <<>>
        /\ Len(run.results.unchanged) =
               Cardinality(NumbersIn(OldOf(run).current_items))

\* C4 witness: a snapshot whose current_items holds two different rows of one
\* item number has been compared against itself.
C4_Witness ==
    /\ SelfCall
    /\ \E i, j \in 1..Len(OldOf(run).current_items) :
           /\ i < j
           /\ OldOf(run).current_items[i] # OldOf(run).current_items[j]
           /\ OldOf(run).current_items[i].item_number =
                  OldOf(run).current_items[j].item_number
           /\ NonEmpty(OldOf(run).current_items[i].item_number)
    /\ run.results.unchanged # <<>>

\* The latest call and the one before it were given the same two snapshots,
\* in opposite order.
MirrorCalls ==
    /\ Called
    /\ prev_run # NoRun
    /\ OldOf(run) = NewOf(prev_run)
    /\ NewOf(run) = OldOf(prev_run)

\* C5: an item number in the current set of one snapshot and in neither
\* collection of the other is Added when that snapshot is the new one and
\* Removed when it is the old one; the Added numbers of a call are the
\* Removed numbers of the call with the arguments exchanged.
C5_AddedRemovedMirror ==
    /\ Called =>
          \A num \in NumbersOfCall(run) :
              /\ (Pattern(run, num).new_current /\ ~Pattern(run, num).old_current
                    /\ ~Pattern(run, num).old_legacy)
                     => num \in Listed(run.results, "added")
              /\ (Pattern(run, num).old_current /\ ~Pattern(run, num).new_current
                    /\ ~Pattern(run, num).new_legacy)
                     => num \in Listed(run.results, "removed")
    /\ MirrorCalls =>
          /\ Listed(run.results, "added") = Listed(prev_run.results, "removed")
          /\ Listed(run.results, "removed") = Listed(prev_run.results, "added")

\* C5 witness: two different snapshots were compared in both directions, and
\* the later call lists an Added item that is also in NEW Legacy.
C5_Witness ==
    /\ MirrorCalls
    /\ OldOf(run) # NewOf(run)
    /\ \E num \in Listed(run.results, "added") : Pattern(run, num).new_legacy

\* C6: every Removed entry carries requires_review = True and the OLD Current
\* item; an item in OLD Current that is absent from NEW is in removed; no
\* entry of another category carries a requires_review key.
C6_RemovedRequiresReview ==
    Called =>
        /\ \A i \in 1..Len(run.results.removed) :
               LET e == run.results.removed[i] IN
               /\ "requires_review" \in DOMAIN e
               /\ e.requires_review = TRUE
               /\ InRows(OldOf(run).current_items, e.item_number)
               /\ e.item = LastRow(OldOf(run).current_items, e.item_number)
        /\ \A num \in NumbersOfCall(run) :
               (Pattern(run, num).old_current /\ ~Pattern(run, num).new_current
                  /\ ~Pattern(run, num).new_legacy)
                   => num \in Listed(run.results, "removed")
        /\ \A p \in Places(run.results) :
               p[1] # "removed" =>
                   "requires_review" \notin DOMAIN run.results[p[1]][p[2]]

\* C6 witness: a call returned a Removed entry for an item with two different
\* rows in OLD Current, next to an entry of another category.
C6_Witness ==
    /\ Called
    /\ \E i \in 1..Len(run.results.removed) :
           \E j, k \in 1..Len(OldOf(run).current_items) :
               /\ j < k
               /\ OldOf(run).current_items[j] # OldOf(run).current_items[k]
               /\ Get(OldOf(run).current_items[j], "item_number")
                      = run.results.removed[i].item_number
               /\ Get(OldOf(run).current_items[k], "item_number")
                      = run.results.removed[i].item_number
    /\ \E p \in Places(run.results) : p[1] # "removed"

FieldSet == {fields_to_compare[i] : i \in 1..Len(fields_to_compare)}

\* The normalized form of a value: None gives the empty string, a string is
\* stripped and lower-cased, any other value gives its str().
Normalized(v) ==
    IF v = None THEN <<>>
    ELSE IF v.t = "str" THEN Lower(Strip(v.s))
    ELSE PyStr(v)

\* The item numbers of a call that are in both current sets.
InBothCurrent(r) ==
    {num \in NumbersOfCall(r) :
        Pattern(r, num).old_current /\ Pattern(r, num).new_current}

OldCurrent(r, num) == LastRow(OldOf(r).current_items, num)

NewCurrent(r, num) == LastRow(NewOf(r).current_items, num)

\* The fields whose normalized values differ between the two current items.
DifferingFields(r, num) ==
    {f \in FieldSet : Normalized(Get(OldCurrent(r, num), f))
                          # Normalized(Get(NewCurrent(r, num), f))}

\* C7: for an item in both current sets, a field has a change entry iff its
\* normalized old and new values differ; the entry records the raw old and
\* new values; a field with equal normalized values has no entry.
C7_FieldChanges ==
    Called =>
        /\ \A i \in 1..Len(run.results.modified) :
               LET e == run.results.modified[i] IN
               /\ e.item_number \in InBothCurrent(run)
               /\ DOMAIN e.changes = DifferingFields(run, e.item_number)
               /\ \A f \in DOMAIN e.changes :
                      e.changes[f] =
                          [old |-> Get(OldCurrent(run, e.item_number), f),
                           new |-> Get(NewCurrent(run, e.item_number), f)]
        /\ \A num \in InBothCurrent(run) :
               num \in Listed(run.results, "unchanged")
                   => DifferingFields(run, num) = {}

\* C7 witness: a Modified entry with a change for the price, whose names
\* differ as raw values and not as normalized ones.
C7_Witness ==
    /\ Called
    /\ \E i \in 1..Len(run.results.modified) :
           LET e == run.results.modified[i] IN
           /\ DOMAIN e.changes = {"price_limit_nsw"}
           /\ e.old.support_name # e.new.support_name

\* C8: an item in both current sets is Modified iff a change is emitted for
\* it and Unchanged otherwise; every Modified entry has a non-empty changes
\* map.
C8_ModifiedIffChanges ==
    Called =>
        /\ \A num \in InBothCurrent(run) :
               LET changes == compute_field_changes(OldCurrent(run, num),
                                                    NewCurrent(run, num))
               IN  /\ num \in Listed(run.results, "modified")
                          <=> DOMAIN changes # {}
                   /\ num \in Listed(run.results, "unchanged")
                          <=> DOMAIN changes = {}
        /\ \A i \in 1..Len(run.results.modified) :
               DOMAIN run.results.modified[i].changes # {}

\* C8 witness: a Modified entry for an item with two different rows in OLD
\* Current, the later of which differs from the NEW Current row.
C8_Witness ==
    /\ Called
    /\ \E i \in 1..Len(run.results.modified) :
           \E j, k \in 1..Len(OldOf(run).current_items) :
               /\ j < k
               /\ OldOf(run).current_items[j] # OldOf(run).current_items[k]
               /\ Get(OldOf(run).current_items[j], "item_number")
                      = run.results.modified[i].item_number
               /\ Get(OldOf(run).current_items[k], "item_number")
                      = run.results.modified[i].item_number

\* Values that differ only by surrounding whitespace and letter case, or by
\* None against an empty or whitespace-only string.
FoldClasses ==
    {{Str(<<"C", "h", "a", "i", "r">>), Str(<<" ", "c", "h", "a", "i", "r", " ">>)},
     {None, Str(<<>>), Str(<<" ">>)}}

SameUpToFolding(v, w) ==
    v = w \/ \E class \in FoldClasses : v \in class /\ w \in class

\* C9: two current items of one item number whose fields differ only by
\* surrounding whitespace, letter case, or None against an empty or
\* whitespace-only string, are Unchanged.
C9_FoldingUnchanged ==
    Called =>
        \A num \in InBothCurrent(run) :
            (\A f \in FieldSet :
                SameUpToFolding(Get(OldCurrent(run, num), f),
                                Get(NewCurrent(run, num), f)))
                => num \in Listed(run.results, "unchanged")

\* C9 witness: "Chair" against " chair " was classified, the other fields
\* being equal.
C9_Witness ==
    /\ Called
    /\ \E num \in InBothCurrent(run) :
           /\ Get(OldCurrent(run, num), "support_name")
                  = Str(<<"C", "h", "a", "i", "r">>)
           /\ Get(NewCurrent(run, num), "support_name")
                  = Str(<<" ", "c", "h", "a", "i", "r", " ">>)
           /\ Get(OldCurrent(run, num), "price_limit_nsw")
                  = Get(NewCurrent(run, num), "price_limit_nsw")
           /\ PlacesOf(run.results, num) # {}

\* C10: the summary gives each category the length of its list, and
\* total_items_compared is the sum of the seven counts, which is the number
\* of distinct non-empty item numbers of the two snapshots.
C10_Summary ==
    summary # NoSummary =>
        /\ \A c \in CategorySet : summary[c] = Len(run.results[c])
        /\ summary["total_items_compared"] = Cardinality(Places(run.results))
        /\ summary["total_items_compared"] = Cardinality(NumbersOfCall(run))

\* C10 witness: a summary of results with entries in two categories, from
\* snapshots that hold more rows than item numbers.
C10_Witness ==
    /\ summary # NoSummary
    /\ summary["total_items_compared"] = 2
    /\ Cardinality({c \in CategorySet : summary[c] > 0}) = 2
    /\ Len(OldOf(run).current_items) + Len(OldOf(run).legacy_items)
         + Len(NewOf(run).current_items) + Len(NewOf(run).legacy_items) > 2

RECURSIVE CountChanges(_)
CountChanges(modified_items) ==
    IF modified_items = <<>> THEN 0
    ELSE Cardinality(DOMAIN Head(modified_items).changes)
         + CountChanges(Tail(modified_items))

\* C11: the modified-items table has one row per (item number, changed
\* field): as many rows as the changes maps have keys together, each row
\* with that change's old and new value, no pair twice, and at least one
\* row for every Modified item.
C11_ModifiedTable ==
    table # NoTable =>
        /\ Len(table.rows) = CountChanges(run.results.modified)
        /\ \A i \in 1..Len(table.rows) :
               \E k \in 1..Len(run.results.modified) :
                   LET m == run.results.modified[k] IN
                   /\ table.rows[i].item_number = m.item_number
                   /\ table.rows[i].field \in DOMAIN m.changes
                   /\ table.rows[i].old_value = m.changes[table.rows[i].field].old
                   /\ table.rows[i].new_value = m.changes[table.rows[i].field].new
        /\ \A i, j \in 1..Len(table.rows) :
               (table.rows[i].item_number = table.rows[j].item_number
                  /\ table.rows[i].field = table.rows[j].field) => i = j
        /\ \A k \in 1..Len(run.results.modified) :
               \E i \in 1..Len(table.rows) :
                   table.rows[i].item_number = run.results.modified[k].item_number

\* C11 witness: a table of two Modified items, one of them with two changed
\* fields.
C11_Witness ==
    /\ table # NoTable
    /\ Len(run.results.modified) = 2
    /\ Len(table.rows) = 3

\* The one item an index slot holds for a collection: the slot is empty iff
\* the item number is not in the collection.
SlotMatches(slot, rows, num) == (slot # NoItem) <=> InRows(rows, num)

IndexMatches(index, cat) ==
    /\ DOMAIN index = NumbersOf(cat)
    /\ \A num \in DOMAIN index :
           /\ SlotMatches(index[num].current, cat.current_items, num)
           /\ SlotMatches(index[num].legacy, cat.legacy_items, num)

\* C12: the keys of an index are the non-empty item numbers of current_items
\* and legacy_items together; the current slot is filled iff the number is
\* in current_items and the legacy slot iff it is in legacy_items.
C12_IndexKeysAndSlots ==
    Called =>
        /\ IndexMatches(run.old_index, OldOf(run))
        /\ IndexMatches(run.new_index, NewOf(run))

\* C12 witness: an index has been built of a snapshot that has one item
\* number in both collections; both slots are filled.
C12_Witness ==
    /\ Called
    /\ \E num \in DOMAIN run.old_index :
           /\ InRows(OldOf(run).current_items, num)
           /\ InRows(OldOf(run).legacy_items, num)
           /\ run.old_index[num].current # NoItem
           /\ run.old_index[num].legacy # NoItem

\* A slot holds the last row of the collection with that item number.
SlotIsLast(slot, rows, num) == InRows(rows, num) => slot = LastRow(rows, num)

IndexHoldsLast(index, cat) ==
    \A num \in DOMAIN index :
        /\ SlotIsLast(index[num].current, cat.current_items, num)
        /\ SlotIsLast(index[num].legacy, cat.legacy_items, num)

\* Some item number has two different rows in the collection.
HasDuplicate(rows) ==
    \E i, j \in 1..Len(rows) :
        /\ i < j
        /\ rows[i] # rows[j]
        /\ NonEmpty(Get(rows[i], "item_number"))
        /\ Get(rows[i], "item_number") = Get(rows[j], "item_number")

\* C13: when several rows of a collection share an item number, the index
\* slot holds the last of them, and the duplication by itself puts nothing
\* under anomalies: the category is that of the presence pattern.
C13_LastDuplicateWins ==
    Called =>
        /\ IndexHoldsLast(run.old_index, OldOf(run))
        /\ IndexHoldsLast(run.new_index, NewOf(run))
        /\ \A num \in Listed(run.results, "anomalies") :
               TableCategories(Pattern(run, num)) = {"anomalies"}

\* C13 witness: an index has been built of a snapshot whose current_items
\* holds two different rows of one item number.
C13_Witness ==
    /\ Called
    /\ HasDuplicate(OldOf(run).current_items)
    /\ run.results.anomalies = <<>>

\* The rows of a collection that carry an identifier.
RECURSIVE WithIdentifier(_)
WithIdentifier(rows) ==
    IF rows = <<>> THEN <<>>
    ELSE IF NonEmpty(Get(Head(rows), "item_number"))
         THEN <<Head(rows)>> \o WithIdentifier(Tail(rows))
         ELSE WithIdentifier(Tail(rows))

Identified(cat) ==
    [current_items |-> WithIdentifier(cat.current_items),
     legacy_items |-> WithIdentifier(cat.legacy_items)]

HasUnidentified(cat) == Identified(cat) # cat

\* C14: rows whose item_number is missing, None or empty are in no index and
\* under no category and are not counted in total_items_compared, and the
\* results are those of the same snapshots with such rows taken out.
C14_MissingIdentifierExcluded ==
    Called =>
        /\ \A num \in DOMAIN run.old_index \cup DOMAIN run.new_index : NonEmpty(num)
        /\ \A p \in Places(run.results) :
               NonEmpty(run.results[p[1]][p[2]].item_number)
        /\ \E order \in Orders(NumbersOfCall(run)) :
               run.results = compare_catalogues(Identified(OldOf(run)),
                                                Identified(NewOf(run)), order)
        /\ summary # NoSummary =>
               summary["total_items_compared"] = Cardinality(NumbersOfCall(run))

\* C14 witness: the old snapshot has a row without identifier next to an
\* identified row in the same collection, the call has run and the summary
\* counts the identified item numbers only.
C14_Witness ==
    /\ Called
    /\ summary # NoSummary
    /\ HasUnidentified(OldOf(run))
    /\ Len(OldOf(run).current_items) = 2
    /\ NumbersOfCall(run) # {}
    /\ \E i \in 1..2 : Get(OldOf(run).current_items[i], "item_number") = Str(<<>>)

\* The item numbers of a call that are in both collections of the old, and
\* of the new, snapshot.
InBothOfOld(r, num) == Pattern(r, num).old_current /\ Pattern(r, num).old_legacy

InBothOfNew(r, num) == Pattern(r, num).new_current /\ Pattern(r, num).new_legacy

\* C15 as stated: an item number in both current and legacy of one snapshot
\* is never under anomalies.
C15_BothSlotsNeverAnomaly ==
    Called =>
        \A num \in Listed(run.results, "anomalies") :
            ~InBothOfOld(run, num) /\ ~InBothOfNew(run, num)

\* C15: an item number in both current and legacy of the old snapshot is
\* never under anomalies; one in both current and legacy of the new snapshot
\* is under anomalies exactly when the old snapshot has it in legacy and not
\* in current.
C15_BothSlotsAnomalyOnlyFromOldLegacy ==
    Called =>
        \A num \in NumbersOfCall(run) :
            /\ InBothOfOld(run, num) => num \notin Listed(run.results, "anomalies")
            /\ InBothOfNew(run, num) =>
                   (num \in Listed(run.results, "anomalies")
                        <=> (Pattern(run, num).old_legacy
                                /\ ~Pattern(run, num).old_current))

\* C15 witness: a call whose new snapshot has an item number in both
\* collections that the old snapshot has in legacy only, listed under
\* anomalies, after the opposite call, whose old snapshot had it in both
\* collections and which listed it elsewhere.
C15_Witness ==
    /\ Called
    /\ \E num \in NumbersOfCall(run) :
           /\ InBothOfNew(run, num)
           /\ Pattern(run, num).old_legacy
           /\ num \in Listed(run.results, "anomalies")
    /\ prev_run # NoRun
    /\ \E num \in NumbersOfCall(prev_run) :
           /\ InBothOfOld(prev_run, num)
           /\ num \notin Listed(prev_run.results, "anomalies")

\* The labels of the slots a presence pattern fills, in the order of the
\* four tests.
SlotLabels == <<"OLD Current", "OLD Legacy", "NEW Current", "NEW Legacy">>

LabelPresent(p, label) ==
    CASE label = "OLD Current" -> p.old_current
      [] label = "OLD Legacy" -> p.old_legacy
      [] label = "NEW Current" -> p.new_current
      [] label = "NEW Legacy" -> p.new_legacy

PresentLabels(p) ==
    LET Test(label) == LabelPresent(p, label)
    IN  SelectSeq(SlotLabels, Test)

\* The value a slot carries for a collection: its last row of that number,
\* or null.
SlotValue(rows, num) == IF InRows(rows, num) THEN LastRow(rows, num) ELSE NoItem

\* C16: the description of an entry under anomalies names exactly the slots
\* that hold the item, in the order OLD Current, OLD Legacy, NEW Current, NEW
\* Legacy, and names at least one; the entry carries the four slot values,
\* null for an absent one.
C16_AnomalyDescription ==
    Called =>
        \A i \in 1..Len(run.results.anomalies) :
            LET e == run.results.anomalies[i]
                p == Pattern(run, e.item_number)
            IN  /\ e.description = <<"Unusual transition: ">> \o PresentLabels(p)
                /\ PresentLabels(p) # <<>>
                /\ e.old_current = SlotValue(OldOf(run).current_items, e.item_number)
                /\ e.old_legacy = SlotValue(OldOf(run).legacy_items, e.item_number)
                /\ e.new_current = SlotValue(NewOf(run).current_items, e.item_number)
                /\ e.new_legacy = SlotValue(NewOf(run).legacy_items, e.item_number)

\* C16 witness: an entry under anomalies that names three slots and carries
\* null for the fourth.
C16_Witness ==
    /\ Called
    /\ \E i \in 1..Len(run.results.anomalies) :
           /\ Len(run.results.anomalies[i].description) = 4
           /\ run.results.anomalies[i].old_current = NoItem

\* The item numbers of a call that are in both current sets with the NSW
\* price 100 in the old item and 110 in the new one, every other compared
\* field being the same.
PriceRaised(r) ==
    {num \in InBothCurrent(r) :
        /\ Get(OldCurrent(r, num), "price_limit_nsw") = Float(100)
        /\ Get(NewCurrent(r, num), "price_limit_nsw") = Float(110)
        /\ \A f \in FieldSet \ {"price_limit_nsw"} :
               Get(OldCurrent(r, num), f) = Get(NewCurrent(r, num), f)}

\* The Modified entries of an item number.
ModifiedOf(r, num) ==
    {i \in 1..Len(r.results.modified) : r.results.modified[i].item_number = num}

\* C19 as stated: such an item is Modified with exactly one change, which
\* carries a region, old = 100, new = 110 and change_pct = 10.0.
C19_PriceChangeWithPct ==
    Called =>
        \A num \in PriceRaised(run) :
            \E i \in ModifiedOf(run, num) :
                LET changes == run.results.modified[i].changes IN
                /\ Cardinality(DOMAIN changes) = 1
                /\ \A f \in DOMAIN changes :
                       /\ DOMAIN changes[f] = {"region", "old", "new", "change_pct"}
                       /\ changes[f].old = Float(100)
                       /\ changes[f].new = Float(110)
                       /\ changes[f].change_pct = Float(10)

\* C19: such an item is Modified with exactly one change; the change is
\* keyed by the price field of the region and carries old = 100 and
\* new = 110 and nothing else.
C19_PriceChangeOldNew ==
    Called =>
        \A num \in PriceRaised(run) :
            /\ ModifiedOf(run, num) # {}
            /\ \A i \in ModifiedOf(run, num) :
                   /\ DOMAIN run.results.modified[i].changes = {"price_limit_nsw"}
                   /\ run.results.modified[i].changes["price_limit_nsw"]
                          = [old |-> Float(100), new |-> Float(110)]

\* C19 witness: a call in which item A1 has the price raised from 100 to 110
\* and nothing else changed, and is listed under modified.
C19_Witness ==
    /\ Called
    /\ Str(<<"A", "1">>) \in PriceRaised(run)
    /\ Str(<<"A", "1">>) \in Listed(run.results, "modified")

(***************************************************************************)
(* _normalize_for_comparison on its own: a value, its normalized form, and *)
(* the normalized form of that string.                                     *)
(***************************************************************************)
\* The longest string handed in.
MaxStrLen == 3

NormChars == {" ", "a", "B", "T"}

Strings == UNION {[1..n -> NormChars] : n \in 0..MaxStrLen}

\* None, strings, booleans and numbers.
Values ==
    {None, PyBool(TRUE), PyBool(FALSE), PyInt(2), PyInt(0 - 5), Float(0), Float(100)}
        \cup {Str(chars) : chars \in Strings}

InitNorm ==
    /\ value \in Values
    /\ normal = NoNormal
    /\ catA = [current_items |-> <<>>, legacy_items |-> <<>>]
    /\ catB = [current_items |-> <<>>, legacy_items |-> <<>>]
    /\ run = NoRun
    /\ prev_run = NoRun
    /\ summary = NoSummary
    /\ table = NoTable
    /\ old_file = NoFile
    /\ new_file = NoFile
    /\ page = NoPage
    /\ old_upload = NoUpload
    /\ new_upload = NoUpload
    /\ session = InitSession

\* normalized = _normalize_for_comparison(value)
Normalize ==
    /\ normal = NoNormal
    /\ normal' = [once |-> normalize_for_comparison(value)]
    /\ UNCHANGED value
    /\ UNCHANGED not_norm_vars

\* _normalize_for_comparison(normalized), and the comparison of the value
\* with its normalized form.
NormalizeAgain ==
    /\ normal # NoNormal
    /\ DOMAIN normal = {"once"}
    /\ normal' = [once |-> normal.once,
                  twice |-> normalize_for_comparison(Str(normal.once)),
                  differs |-> differs(value, Str(normal.once))]
    /\ UNCHANGED value
    /\ UNCHANGED not_norm_vars

NextNorm == Normalize \/ NormalizeAgain

SpecNorm == InitNorm /\ [][NextNorm]_vars

----------------------------------------------------------------------------
\* The flat-schema page: the comparison has run and the page shows its diff.
Shown == page # NoPage

StateSet == {STATES[i] : i \in 1..Len(STATES)}

\* The item numbers of both uploaded catalogues, and an item's price there.
InBothFiles == flat_numbers(old_file) \cap flat_numbers(new_file)

OldPrice(num, st) == Get(flat_item(old_file, num).price_limits, st)

NewPrice(num, st) == Get(flat_item(new_file, num).price_limits, st)

\* The exported price changes: (item, region) pairs and their entries.
Exported ==
    {<<i, st>> \in (1..Len(page.json_payload.modified_items)) \X StateSet :
        st \in DOMAIN page.json_payload.modified_items[i].price_changes}

ExportedChange(e) == page.json_payload.modified_items[e[1]].price_changes[e[2]]

ExportedNumber(e) == page.json_payload.modified_items[e[1]].support_item_number

\* C17: a PriceChange of a region is in the export of an item only when the
\* old and the new price are both present, the old one is not zero and the
\* two differ, and it carries these two prices; a pair with old = 0 or an
\* absent side has no PriceChange, and the page is drawn all the same.
C17_PriceChangeEligibility ==
    Shown =>
        /\ \A e \in Exported :
               /\ ExportedNumber(e) \in InBothFiles
               /\ ExportedChange(e).old = OldPrice(ExportedNumber(e), e[2])
               /\ ExportedChange(e).new = NewPrice(ExportedNumber(e), e[2])
               /\ ExportedChange(e).old # None
               /\ ExportedChange(e).new # None
               /\ ExportedChange(e).old.n # 0
               /\ ExportedChange(e).old # ExportedChange(e).new
        /\ \A num \in InBothFiles, st \in StateSet :
               (OldPrice(num, st) \in {None, Float(0)} \/ NewPrice(num, st) = None)
                   => ~\E e \in Exported : ExportedNumber(e) = num /\ e[2] = st

\* C17 witness: the page is drawn for catalogues in which A1 has an NSW
\* price of 0 before and 110 after and no ACT price before, and B2 goes
\* from 100 to 110: only the last pair is exported.
C17_Witness ==
    /\ Shown
    /\ OldPrice(Str(<<"A", "1">>), "NSW") = Float(0)
    /\ NewPrice(Str(<<"A", "1">>), "NSW") = Float(110)
    /\ OldPrice(Str(<<"A", "1">>), "ACT") = None
    /\ Cardinality(Exported) = 1
    /\ \E e \in Exported : ExportedNumber(e) = Str(<<"B", "2">>)

\* The emitted price changes of the diff: (item, region) pairs.
Emitted ==
    {<<i, st>> \in (1..Len(page.diff.modified_items)) \X StateSet :
        st \in DOMAIN page.diff.modified_items[i].price_changes}

EmittedChange(e) == page.diff.modified_items[e[1]].price_changes[e[2]]

PctsOf(st) == {EmittedChange(e).change_pct : e \in {x \in Emitted : x[2] = st}}

SumOfPcts(st, i) ==
    LET changes == {e \in Emitted : e[2] = st /\ e[1] <= i}
        Seqs == {q \in [1..Cardinality(changes) -> changes] :
                    \A a, b \in DOMAIN q : a < b => q[a][1] < q[b][1]}
        q == CHOOSE q \in Seqs : TRUE
    IN  RatSum([k \in DOMAIN q |-> EmittedChange(q[k]).change_pct])

EmittedIn(st) == {e \in Emitted : e[2] = st}

\* C21: for every region of the statistics, increases + decreases = count,
\* count being the number of the region's price changes over all modified
\* items, none of which has a zero percentage; the table's "+" and "-"
\* columns add up to its "Items changed" column.
C21_IncreasesPlusDecreases ==
    Shown =>
        /\ \A st \in DOMAIN page.diff.price_stats_by_state :
               LET stats == page.diff.price_stats_by_state[st] IN
               /\ stats.increases + stats.decreases = stats.count
               /\ stats.count = Cardinality(EmittedIn(st))
               /\ stats.increases =
                      Cardinality({e \in EmittedIn(st) :
                                      EmittedChange(e).change_pct.num > 0})
               /\ \A e \in EmittedIn(st) : EmittedChange(e).change_pct.num # 0
        /\ page.price_stats # NoPriceChanges =>
               \A i \in 1..Len(page.price_stats.rows) :
                   LET row == page.price_stats.rows[i]
                       stats == page.diff.price_stats_by_state[row["State"]]
                   IN  /\ row["+"] + row["-"] = row["Items changed"]
                       /\ row["Items changed"] = Cardinality(EmittedIn(row["State"]))
                       /\ row["-"] = stats.decreases

\* C21 witness: NSW has one increase and one decrease, and its row shows
\* 1, 1 and 2.
C21_Witness ==
    /\ Shown
    /\ page.price_stats # NoPriceChanges
    /\ \E i \in 1..Len(page.price_stats.rows) :
           /\ page.price_stats.rows[i]["State"] = "NSW"
           /\ page.price_stats.rows[i]["+"] = 1
           /\ page.price_stats.rows[i]["-"] = 1
           /\ page.price_stats.rows[i]["Items changed"] = 2

\* The regions for which a price change was emitted.
RegionsWithChanges == {st \in StateSet : EmittedIn(st) # {}}

\* C22: the statistics map has a key for a region iff a price change was
\* emitted for it, and no entry has count 0; the table has one row for each
\* such region and no other, and with no price change at all the map is
\* empty and the page shows the information line instead of a table.
C22_StatsKeys ==
    Shown =>
        /\ DOMAIN page.diff.price_stats_by_state = RegionsWithChanges
        /\ \A st \in DOMAIN page.diff.price_stats_by_state :
               page.diff.price_stats_by_state[st].count > 0
        /\ RegionsWithChanges = {} <=> page.price_stats = NoPriceChanges
        /\ page.price_stats # NoPriceChanges =>
               /\ {page.price_stats.rows[i]["State"] :
                      i \in 1..Len(page.price_stats.rows)} = RegionsWithChanges
               /\ Len(page.price_stats.rows) = Cardinality(RegionsWithChanges)

\* C22 witness: price changes were emitted for NSW and none for ACT, where
\* item A1 has a price on one side only; the table has the NSW row only.
C22_Witness ==
    /\ Shown
    /\ RegionsWithChanges = {"NSW"}
    /\ OldPrice(Str(<<"A", "1">>), "ACT") = None
    /\ page.price_stats # NoPriceChanges
    /\ Len(page.price_stats.rows) = 1

----------------------------------------------------------------------------
\* The entries of each category, as sets: the classification of every item
\* number with its payload and changes, whatever the order of the lists.
Entries(results) ==
    [c \in CategorySet |-> {results[c][i] : i \in 1..Len(results[c])}]

\* The number of entries of all categories together.
EntryCount(results) == Cardinality(Places(results))

\* An earlier call had the arguments of a later one and gave every item
\* number the same category and the same entry.
SameOutcome(earlier, later) ==
    (earlier # NoRun /\ earlier.old = later.old /\ earlier.new = later.new)
        => /\ Entries(later.results) = Entries(earlier.results)
           /\ EntryCount(later.results) = EntryCount(earlier.results)

----------------------------------------------------------------------------
\* One of the orders in which a set of item numbers can be iterated.
AnyOrder(S) == CHOOSE order \in Orders(S) : TRUE

\* The orders in which the rows of a collection can be arranged.
Perms(rows) ==
    {[i \in 1..Len(rows) |-> rows[f[i]]] : f \in Orders(1..Len(rows))}

\* The snapshots that hold the rows of a snapshot, each collection arranged
\* in some order.
Permuted(cat) ==
    {[current_items |-> c, legacy_items |-> l] :
        c \in Perms(cat.current_items), l \in Perms(cat.legacy_items)}

\* What a call assigns to each item number: its category and, for a Modified
\* item, its changes map.
Classification(results) ==
    {[item_number |-> results[p[1]][p[2]].item_number,
      category |-> p[1],
      changes |-> IF p[1] = "modified"
                  THEN [map |-> results[p[1]][p[2]].changes]
                  ELSE [none |-> TRUE]] : p \in Places(results)}

\* The same, Modified and Unchanged taken as one category and without the
\* changes map.
PresenceClassification(results) ==
    {[item_number |-> results[p[1]][p[2]].item_number,
      category |-> IF p[1] \in {"modified", "unchanged"} THEN "both_current"
                   ELSE p[1]] : p \in Places(results)}

\* No item number occurs twice in a collection of the snapshot.
UniqueIn(rows) ==
    \A i, j \in 1..Len(rows) :
        (i # j /\ NonEmpty(Get(rows[i], "item_number")))
            => Get(rows[i], "item_number") # Get(rows[j], "item_number")

UniqueNumbers(cat) == UniqueIn(cat.current_items) /\ UniqueIn(cat.legacy_items)

\* A call has just returned (the summary is not computed yet).
JustCalled == Called /\ summary = NoSummary

\* C24 as stated: arranging the rows of any of the four collections in
\* another order leaves the category and the changes map of every item
\* number as they are.
C24_OrderIrrelevant ==
    JustCalled =>
        \A o \in Permuted(OldOf(run)), n \in Permuted(NewOf(run)) :
            Classification(compare_catalogues(o, n, AnyOrder(NumbersOfCall(run))))
                = Classification(run.results)

\* C24: arranging the rows of any of the four collections in another order
\* leaves the category and the changes map of every item number as they are
\* when no item number occurs twice in a collection; when one does, the
\* category stays the same except that Modified may become Unchanged and
\* Unchanged Modified, the changes being those against the last of the rows.
C24_OrderIrrelevantForUnique ==
    JustCalled =>
        \A o \in Permuted(OldOf(run)), n \in Permuted(NewOf(run)) :
            LET other == compare_catalogues(o, n, AnyOrder(NumbersOfCall(run)))
            IN  /\ PresenceClassification(other) = PresenceClassification(run.results)
                /\ (UniqueNumbers(OldOf(run)) /\ UniqueNumbers(NewOf(run)))
                       => Classification(other) = Classification(run.results)

\* C24 witness: a call on snapshots whose current sets hold two rows each,
\* of two item numbers, with a Modified item.
C24_Witness ==
    /\ JustCalled
    /\ UniqueNumbers(OldOf(run))
    /\ UniqueNumbers(NewOf(run))
    /\ Len(OldOf(run).current_items) = 2
    /\ Len(NewOf(run).current_items) = 2
    /\ OldOf(run).current_items[1] # OldOf(run).current_items[2]
    /\ run.results.modified # <<>>

----------------------------------------------------------------------------
\* A collection without the rows of an item number.
RECURSIVE WithoutNumber(_, _)
WithoutNumber(rows, num) ==
    IF rows = <<>> THEN <<>>
    ELSE IF Get(Head(rows), "item_number") = num
         THEN WithoutNumber(Tail(rows), num)
         ELSE <<Head(rows)>> \o WithoutNumber(Tail(rows), num)

\* A snapshot without the legacy copy of an item number that it also has in
\* current; the snapshot itself when it has not.
CurrentOnly(cat, num) ==
    IF InRows(cat.current_items, num) /\ InRows(cat.legacy_items, num)
    THEN [cat EXCEPT !.legacy_items = WithoutNumber(cat.legacy_items, num)]
    ELSE cat

\* The category and changes of one item number.
ClassificationOf(results, num) ==
    {x \in Classification(results) : x.item_number = num}

\* C25: an item number that is in both current and legacy of a snapshot gets
\* the category (and the changes) it would get if the legacy copy of that
\* snapshot were not there.
C25_CurrentAuthoritative ==
    JustCalled =>
        \A num \in NumbersOfCall(run) :
            (InBothOfOld(run, num) \/ InBothOfNew(run, num)) =>
                ClassificationOf(run.results, num) =
                    ClassificationOf(
                        compare_catalogues(CurrentOnly(OldOf(run), num),
                                           CurrentOnly(NewOf(run), num),
                                           AnyOrder(NumbersOfCall(run))), num)

\* C25 witness: the call before had an item number in both collections of
\* the new snapshot and listed it under added; the latest call, with the
\* arguments exchanged, has it in both collections of the old snapshot and
\* lists it under removed.
C25_Witness ==
    /\ JustCalled
    /\ prev_run # NoRun
    /\ \E num \in NumbersOfCall(run) :
           /\ InBothOfOld(run, num)
           /\ num \in Listed(run.results, "removed")
           /\ InBothOfNew(prev_run, num)
           /\ num \in Listed(prev_run.results, "added")

----------------------------------------------------------------------------
\* The presence patterns the claim calls anomalous.
AnomalousPattern(p) ==
    /\ ~p.old_current
    /\ \/ p.new_legacy /\ ~p.new_current
       \/ p.old_legacy /\ p.new_current

\* An item number that is only in legacy in both snapshots.
StaysLegacy(p) ==
    ~p.old_current /\ p.old_legacy /\ ~p.new_current /\ p.new_legacy

\* C26: an item number is under anomalies exactly when OLD Current is absent
\* and either NEW Legacy is present without NEW Current, or OLD Legacy and
\* NEW Current are both present; so an item that is only in legacy on both
\* sides is under anomalies and one with OLD Current present never is.
C26_AnomalyPatterns ==
    Called =>
        \A num \in NumbersOfCall(run) :
            /\ num \in Listed(run.results, "anomalies")
                   <=> AnomalousPattern(Pattern(run, num))
            /\ StaysLegacy(Pattern(run, num))
                   => num \in Listed(run.results, "anomalies")
            /\ Pattern(run, num).old_current
                   => num \notin Listed(run.results, "anomalies")

\* C26 witness: a call on two different snapshots that both have an item
\* number in legacy only; it is listed under anomalies with the description
\* OLD Legacy, NEW Legacy.
C26_Witness ==
    /\ Called
    /\ run.old # run.new
    /\ \E i \in 1..Len(run.results.anomalies) :
           /\ StaysLegacy(Pattern(run, run.results.anomalies[i].item_number))
           /\ run.results.anomalies[i].description
                  = <<"Unusual transition: ", "OLD Legacy", "NEW Legacy">>

----------------------------------------------------------------------------
\* The item numbers of a call that are in both current sets with the NSW
\* price absent on one side and 0.0 on the other, every other compared
\* field being the same.
AbsentVersusZero(r) ==
    {num \in InBothCurrent(r) :
        /\ {Get(OldCurrent(r, num), "price_limit_nsw"),
            Get(NewCurrent(r, num), "price_limit_nsw")} = {None, Float(0)}
        /\ \A f \in FieldSet \ {"price_limit_nsw"} :
               Get(OldCurrent(r, num), f) = Get(NewCurrent(r, num), f)}

\* C27: such an item is Modified, with a change entry for the price field
\* that records the absent and the zero price, and for no other field.
C27_AbsentIsNotZero ==
    Called =>
        \A num \in AbsentVersusZero(run) :
            /\ ModifiedOf(run, num) # {}
            /\ \A i \in ModifiedOf(run, num) :
                   LET e == run.results.modified[i] IN
                   /\ DOMAIN e.changes = {"price_limit_nsw"}
                   /\ e.changes["price_limit_nsw"] =
                          [old |-> Get(OldCurrent(run, num), "price_limit_nsw"),
                           new |-> Get(NewCurrent(run, num), "price_limit_nsw")]
                   /\ e.changes["price_limit_nsw"].old
                          # e.changes["price_limit_nsw"].new

\* C27 witness: item A1 had no NSW price and has the price 0.0 now, and is
\* listed under modified.
C27_Witness ==
    /\ Called
    /\ Str(<<"A", "1">>) \in AbsentVersusZero(run)
    /\ Get(OldCurrent(run, Str(<<"A", "1">>)), "price_limit_nsw") = None
    /\ Str(<<"A", "1">>) \in Listed(run.results, "modified")

----------------------------------------------------------------------------
\* The sixteen comparable fields.
ComparableFields ==
    {"support_name", "registration_group", "category", "unit", "claim_type",
     "price_limit_nsw", "price_limit_vic", "price_limit_qld", "price_limit_sa",
     "price_limit_wa", "price_limit_tas", "price_limit_nt", "price_limit_act",
     "effective_from", "effective_to", "notes"}

\* The item numbers of a call whose two current items are different records
\* with the same value in every comparable field.
DifferOutsideOnly(r) ==
    {num \in InBothCurrent(r) :
        /\ OldCurrent(r, num) # NewCurrent(r, num)
        /\ \A f \in ComparableFields :
               Get(OldCurrent(r, num), f) = Get(NewCurrent(r, num), f)}

\* C28: the comparison reads the sixteen comparable fields and no other key:
\* two current items that differ only outside them (in raw_row_index) give
\* no change and are Unchanged, and no changes map has a key outside them.
C28_OnlyComparableFields ==
    Called =>
        /\ Cardinality(ComparableFields) = 16
        /\ \A num \in DifferOutsideOnly(run) :
               /\ num \in Listed(run.results, "unchanged")
               /\ num \notin Listed(run.results, "modified")
        /\ \A i \in 1..Len(run.results.modified) :
               DOMAIN run.results.modified[i].changes \subseteq ComparableFields

\* C28 witness: item A1 is at row 2 in one snapshot and at row 7 in the
\* other, alike in every comparable field, and is listed under unchanged.
C28_Witness ==
    /\ Called
    /\ Str(<<"A", "1">>) \in DifferOutsideOnly(run)
    /\ {OldCurrent(run, Str(<<"A", "1">>)).raw_row_index,
        NewCurrent(run, Str(<<"A", "1">>)).raw_row_index} = {PyInt(2), PyInt(7)}
    /\ Str(<<"A", "1">>) \in Listed(run.results, "unchanged")

----------------------------------------------------------------------------
\* The value has been normalized twice.
NormalizedTwice == normal # NoNormal /\ "twice" \in DOMAIN normal

\* C29 as stated: normalizing the normalized form of any value gives it
\* back, and the value does not differ from its normalized form.
C29_Idempotent ==
    NormalizedTwice => normal.twice = normal.once /\ ~normal.differs

\* C29: normalizing the normalized form of None, of a string or of a number
\* gives it back, and such a value does not differ from its normalized
\* form; a boolean gives "True" or "False", whose normalized form is the
\* lower-case word, so that a boolean differs from its normalized form.
C29_IdempotentExceptBooleans ==
    NormalizedTwice =>
        /\ value.t # "bool" => normal.twice = normal.once /\ ~normal.differs
        /\ value.t = "bool" =>
               /\ normal.once = PyStr(value)
               /\ normal.twice = Lower(PyStr(value))
               /\ normal.twice # normal.once
               /\ normal.differs

\* C29 witness: the string " aB" has been normalized to "ab" and that to
\* "ab" again.
C29_Witness ==
    /\ NormalizedTwice
    /\ value = Str(<<" ", "a", "B">>)
    /\ normal.once = <<"a", "b">>
    /\ normal.twice = <<"a", "b">>

----------------------------------------------------------------------------
\* The outcomes of comparing the workbooks now loaded as OLD and NEW, for
\* the sheets the user could map and the orders Python could take.
ResultsOfLoaded ==
    UNION {{compare_catalogues(old_json, new_json, order) :
               order \in Orders(all_item_numbers(old_json, new_json))} :
        old_json \in {convert_catalogue_to_json(session.old_file_path, c, l,
                                                session.old_filename) :
                         c \in SheetNames, l \in SheetNames},
        new_json \in {convert_catalogue_to_json(session.new_file_path, c, l,
                                                session.new_filename) :
                         c \in SheetNames, l \in SheetNames}}

\* C30 as stated: comparison results are held only together with the two
\* converted catalogues, and the results the page shows are results of
\* comparing the OLD and NEW workbooks now loaded.
C30_ResultsOfLoadedFiles ==
    /\ session.comparison_results # None =>
           session.old_json # None /\ session.new_json # None
    /\ displayed_results(session) # None =>
           displayed_results(session) \in ResultsOfLoaded

====
